---- MODULE Spec2Model ----
(***************************************************************************)
(* A model of the command-mediation engine of the shelly broker/agent:     *)
(* the sliding-window rate limiter, the path sandbox (sanitizePath), the   *)
(* per-chat working-directory store with the dynamic command handlers,     *)
(* and the processUpdate pipeline.                                         *)
(*                                                                         *)
(* Strings that the code trims, splits or case-folds are sequences of      *)
(* one-character strings, so that the conversions are computed.  Paths     *)
(* are sequences of components.  Times are whole seconds.                  *)
(***************************************************************************)
EXTENDS Integers, Sequences, FiniteSets, TLC

VARIABLES
    rlMax,      \* rateLimiter.max
    stamp,      \* rateLimiter.stamp : user id -> sequence of admitted times
    clock,      \* the wall clock read by time.Now()
    rlThr,      \* goroutines inside rateLimiter.allow
    rlLog,      \* history of completed allow calls (observer)
    fs,         \* the filesystem under and around the base directory
    sp,         \* the last application of sanitizePath (inputs and result)
    byID,       \* chatCWDStore.byID : chat id -> stored working directory
    thr,        \* goroutines inside handleDynamicCommand
    cfg,        \* BrokerConfig fields read by processUpdate
    out         \* what processUpdate did with the last update (observer)

vars == <<rlMax, stamp, clock, rlThr, rlLog, fs, sp, byID, thr, cfg, out>>

rlVars   == <<rlMax, stamp, clock, rlThr, rlLog>>
pathVars == <<fs, sp>>
cwdVars  == <<byID, thr>>
pipeVars == <<cfg, out>>

(***************************************************************************)
(* Bounds of the model.                                                    *)
(***************************************************************************)
MaxCalls == 5       \* allow calls completed in one behaviour
MaxTicks == 4       \* clock advances in one behaviour

Users   == {1, 2}
Threads == {1, 2}

Range(s) == {s[i] : i \in DOMAIN s}

(***************************************************************************)
(* Strings (package strings), on sequences of one-character strings.       *)
(***************************************************************************)
UpperLetters == <<"A", "B", "C", "D", "E", "F", "G", "H", "I", "J", "K", "L", "M",
                  "N", "O", "P", "Q", "R", "S", "T", "U", "V", "W", "X", "Y", "Z">>
LowerLetters == <<"a", "b", "c", "d", "e", "f", "g", "h", "i", "j", "k", "l", "m",
                  "n", "o", "p", "q", "r", "s", "t", "u", "v", "w", "x", "y", "z">>

LowerCh(c) ==
    IF \E i \in DOMAIN UpperLetters : UpperLetters[i] = c
    THEN LowerLetters[CHOOSE i \in DOMAIN UpperLetters : UpperLetters[i] = c]
    ELSE c

\* strings.ToLower
ToLower(s) == [i \in DOMAIN s |-> LowerCh(s[i])]

\* strings.EqualFold, on ASCII text
EqualFold(a, b) == ToLower(a) = ToLower(b)

IsSpace(c) == c \in {" ", "\t", "\n"}

\* strings.TrimSpace
RECURSIVE TrimLeft(_)
TrimLeft(s) == IF s # <<>> /\ IsSpace(Head(s)) THEN TrimLeft(Tail(s)) ELSE s

RECURSIVE TrimRight(_)
TrimRight(s) ==
    IF s # <<>> /\ IsSpace(s[Len(s)]) THEN TrimRight(SubSeq(s, 1, Len(s) - 1)) ELSE s

TrimSpace(s) == TrimRight(TrimLeft(s))

\* strings.Fields: the maximal runs of non-space characters, in order.
RECURSIVE FieldsFrom(_, _, _)
FieldsFrom(s, cur, acc) ==
    IF s = <<>> THEN (IF cur = <<>> THEN acc ELSE Append(acc, cur))
    ELSE IF IsSpace(Head(s))
         THEN FieldsFrom(Tail(s), <<>>, IF cur = <<>> THEN acc ELSE Append(acc, cur))
         ELSE FieldsFrom(Tail(s), Append(cur, Head(s)), acc)

Fields(s) == FieldsFrom(s, <<>>, <<>>)

\* strings.TrimPrefix(s, "/")
TrimSlash(s) == IF s # <<>> /\ Head(s) = "/" THEN Tail(s) ELSE s

(***************************************************************************)
(* RateLimiter (main.go).                                                  *)
(***************************************************************************)
\* time.Minute, the window main() constructs the limiter with.
Window == 60

\* The clock advances by half a window or a whole one, so that a stamp can
\* be exactly one window old when a call is evaluated.
TickSteps == {30, 60}

RLMaxValues == {-1, 0, 1, 3}

newRateLimiter == [u \in Users |-> <<>>]

AfterOrEqual(t, cut) == t >= cut

\* t.After(cut): strictly later.
After(t, cut) == t > cut

\* Mutants of allowLocked.
allowLockedNoCheck(list, now, max) ==
    LET cut  == now - Window
        kept == SelectSeq(list, LAMBDA t : After(t, cut))
    IN  [ok |-> TRUE, list |-> Append(kept, now)]

allowLockedKeepsBoundary(list, now, max) ==
    LET cut  == now - Window
        kept == SelectSeq(list, LAMBDA t : t >= cut)
    IN  IF Len(kept) >= max
        THEN [ok |-> FALSE, list |-> kept]
        ELSE [ok |-> TRUE, list |-> Append(kept, now)]

\* The critical section of allow: prune, compare with max, record.
allowLocked(list, now, max) ==
    LET cut  == now - Window
        kept == SelectSeq(list, LAMBDA t : After(t, cut))
    IN  IF Len(kept) >= max
        THEN [ok |-> FALSE, list |-> kept]
        ELSE [ok |-> TRUE, list |-> Append(kept, now)]

\* Mutant of limiterDisabled.
limiterDisabledStrict(max) == max < 0

\* The early return of allow: r.max <= 0.
limiterDisabled(max) == max <= 0

RLIdle == [pc |-> "idle", user |-> 0, now |-> 0]

NoCall == [user |-> 0, now |-> 0, end |-> 0, ok |-> TRUE, locked |-> FALSE,
           inWinNow |-> 0, inWinEnd |-> 0]

\* The observer of the limiter: the times of the admitted calls of each
\* identity (never pruned), the time of its last rejected call, the number of
\* calls begun, and the call that returned last.
NoLog == [hist |-> [u \in Users |-> <<>>], rej |-> [u \in Users |-> -1],
          calls |-> 0, last |-> NoCall]

\* How many calls of u were admitted less than one window before time at.
AdmittedInWindow(u, at) ==
    Cardinality({j \in DOMAIN rlLog.hist[u] : at - rlLog.hist[u][j] < Window})

Returned(u, now, ok, locked) ==
    [rlLog EXCEPT
        !.hist[u] = IF ok THEN Append(@, now) ELSE @,
        !.rej[u]  = IF ok THEN @ ELSE now,
        !.last    = [user |-> u, now |-> now, end |-> clock, ok |-> ok, locked |-> locked,
                     inWinNow |-> AdmittedInWindow(u, now),
                     inWinEnd |-> AdmittedInWindow(u, clock)]]

\* allow, up to the lock: the max test and time.Now().
AllowEnter(t, u) ==
    /\ rlThr[t].pc = "idle"
    /\ rlLog.calls < MaxCalls
    /\ IF limiterDisabled(rlMax)
       THEN /\ rlLog' = [Returned(u, clock, TRUE, FALSE) EXCEPT !.calls = @ + 1]
            /\ UNCHANGED rlThr
       ELSE /\ rlThr' = [rlThr EXCEPT ![t] = [pc |-> "lock", user |-> u, now |-> clock]]
            /\ rlLog' = [rlLog EXCEPT !.calls = @ + 1]
    /\ UNCHANGED <<rlMax, stamp, clock>>

\* allow, from r.mu.Lock() to the deferred Unlock.
AllowLocked(t) ==
    /\ rlThr[t].pc = "lock"
    /\ LET u == rlThr[t].user
           r == allowLocked(stamp[u], rlThr[t].now, rlMax)
       IN  /\ stamp' = [stamp EXCEPT ![u] = r.list]
           /\ rlLog' = Returned(u, rlThr[t].now, r.ok, TRUE)
    /\ rlThr' = [rlThr EXCEPT ![t] = RLIdle]
    /\ UNCHANGED <<rlMax, clock>>

\* The latest time a behaviour reaches: MaxTicks half windows.
MaxTime == MaxTicks * (Window \div 2)

Tick ==
    /\ \E d \in TickSteps : clock + d <= MaxTime /\ clock' = clock + d
    /\ UNCHANGED <<rlMax, stamp, rlThr, rlLog>>

\* Values of the variables a specification does not use.
RLRest   == /\ rlMax = 0 /\ stamp = newRateLimiter /\ clock = 0
            /\ rlThr = [t \in Threads |-> RLIdle] /\ rlLog = NoLog
PathRest == /\ fs = <<>> /\ sp = <<>>
CwdRest  == /\ byID = <<>> /\ thr = <<>>
PipeRest == /\ cfg = <<>> /\ out = <<>>

InitRL ==
    /\ rlMax \in RLMaxValues
    /\ stamp = newRateLimiter
    /\ clock = 0
    /\ rlThr = [t \in Threads |-> RLIdle]
    /\ rlLog = NoLog
    /\ PathRest /\ CwdRest /\ PipeRest

NextRL ==
    \/ \E t \in Threads, u \in Users : AllowEnter(t, u) /\ UNCHANGED <<pathVars, cwdVars, pipeVars>>
    \/ \E t \in Threads : AllowLocked(t) /\ UNCHANGED <<pathVars, cwdVars, pipeVars>>
    \/ Tick /\ UNCHANGED <<pathVars, cwdVars, pipeVars>>

SpecRL == InitRL /\ [][NextRL]_vars

(***************************************************************************)
(* Paths and the filesystem (path/filepath, os).                           *)
(*                                                                         *)
(* An absolute path is the sequence of its components: <<>> is "/",        *)
(* <<"base", "docs">> is "/base/docs".  A path argument as the user typed  *)
(* it is [dash, abs, segs]: whether it starts with "-", whether it starts  *)
(* with "/", and its components, "." and ".." included.  The empty string  *)
(* is [abs |-> FALSE, segs |-> <<>>]; <<" ">> is a string of blanks.       *)
(***************************************************************************)
MaxLinks == 3       \* symlinks followed in one resolution before ELOOP

\* filepath.Abs(cfg.LocalBaseDir): the root of the sandbox.
Base == <<"base">>

Front(q) == SubSeq(q, 1, Len(q) - 1)
Last(q)  == q[Len(q)]

\* strings.TrimSpace(p) == ""
IsBlank(p) == ~p.abs /\ (p.segs = <<>> \/ p.segs = <<" ">>)

\* filepath.Clean of a rooted path: "." dropped, ".." removes the component
\* before it, and is dropped at the root.
RECURSIVE CleanFrom(_, _)
CleanFrom(acc, segs) ==
    IF segs = <<>> THEN acc
    ELSE LET h == Head(segs)
         IN  IF h = "." THEN CleanFrom(acc, Tail(segs))
             ELSE IF h = ".."
                  THEN CleanFrom(IF acc = <<>> THEN acc ELSE Front(acc), Tail(segs))
                  ELSE CleanFrom(Append(acc, h), Tail(segs))

Clean(segs) == CleanFrom(<<>>, segs)

\* filepath.Join(cwdAbs, p), which cleans its result.
Join(cwdAbs, segs) == Clean(cwdAbs \o segs)

RECURSIVE CommonPrefix(_, _)
CommonPrefix(a, b) ==
    IF a # <<>> /\ b # <<>> /\ Head(a) = Head(b)
    THEN 1 + CommonPrefix(Tail(a), Tail(b))
    ELSE 0

\* filepath.Rel(basepath, targpath) of two clean absolute paths: one ".." for
\* every component of basepath after the common prefix, then the rest of
\* targpath; <<>> stands for ".".
Rel(basepath, targpath) ==
    LET n == CommonPrefix(basepath, targpath)
    IN  [i \in 1..(Len(basepath) - n) |-> ".."] \o SubSeq(targpath, n + 1, Len(targpath))

\* rel == ".." || strings.HasPrefix(rel, ".."+string(os.PathSeparator))
EscapesBase(rel) ==
    \/ rel = <<"..">>
    \/ (Len(rel) >= 2 /\ rel[1] = "..")

Dir        == [kind |-> "dir", target |-> <<>>]
File       == [kind |-> "file", target |-> <<>>]
Symlink(t) == [kind |-> "link", target |-> t]

IsLink(f, at, t) == at \in DOMAIN f /\ f[at] = Symlink(t)

Failed == [ok |-> FALSE, path |-> <<>>]

\* The kernel's path walk: done is the real path reached so far, rest the
\* components still to walk; every symlink met is followed (its target is an
\* absolute path), at most MaxLinks of them.
RECURSIVE Walk(_, _, _, _)
Walk(f, done, rest, fuel) ==
    IF rest = <<>> THEN [ok |-> TRUE, path |-> done]
    ELSE LET next == Append(done, Head(rest))
         IN  IF next \notin DOMAIN f THEN Failed
             ELSE IF f[next].kind = "link"
                  THEN IF fuel = 0 THEN Failed
                       ELSE Walk(f, <<>>, f[next].target \o Tail(rest), fuel - 1)
                  ELSE IF f[next].kind = "file" /\ Tail(rest) # <<>> THEN Failed
                       ELSE Walk(f, next, Tail(rest), fuel)

\* filepath.EvalSymlinks(abs): the path with every symlink resolved, or an
\* error when a component is missing or the links loop.
EvalSymlinks(f, abs) == Walk(f, <<>>, abs, MaxLinks)

\* os.Lstat(abs): the parent is walked through its symlinks, the last
\* component is not followed.
Lstat(f, abs) ==
    IF abs = <<>> THEN [ok |-> TRUE, kind |-> "dir"]
    ELSE LET par == Walk(f, <<>>, Front(abs), MaxLinks)
             at  == Append(par.path, Last(abs))
         IN  IF par.ok /\ f[par.path].kind = "dir" /\ at \in DOMAIN f
             THEN [ok |-> TRUE, kind |-> f[at].kind]
             ELSE [ok |-> FALSE, kind |-> "none"]

\* os.Stat(abs): every symlink is followed, the last component included.
Stat(f, abs) ==
    LET r == EvalSymlinks(f, abs)
    IN  IF r.ok THEN [ok |-> TRUE, kind |-> f[r.path].kind]
        ELSE [ok |-> FALSE, kind |-> "none"]

Rejected(msg)  == [ok |-> FALSE, path |-> <<>>, err |-> msg]
Accepted(path) == [ok |-> TRUE, path |-> path, err |-> ""]

\* Mutant of sanitizePath: the symlink target is not re-checked.
sanitizePathNoRecheck(f, baseAbs, cwdAbs, p) ==
    IF IsBlank(p) THEN Rejected("empty path")
    ELSE LET abs == IF p.abs THEN Clean(p.segs) ELSE Join(cwdAbs, p.segs)
         IN  IF EscapesBase(Rel(baseAbs, abs)) THEN Rejected("path outside base_dir")
             ELSE Accepted(abs)

\* sanitizePath(baseAbs, cwdAbs, p) on filesystem f.  filepath.Rel of two
\* absolute paths does not fail, so "invalid path" is never returned.
sanitizePath(f, baseAbs, cwdAbs, p) ==
    IF IsBlank(p) THEN Rejected("empty path")
    ELSE LET abs  == IF p.abs THEN Clean(p.segs) ELSE Join(cwdAbs, p.segs)
             info == Lstat(f, abs)
             eval == EvalSymlinks(f, abs)
         IN  IF EscapesBase(Rel(baseAbs, abs)) THEN Rejected("path outside base_dir")
             ELSE IF /\ info.ok /\ info.kind = "link"
                     /\ eval.ok
                     /\ EscapesBase(Rel(baseAbs, eval.path))
                  THEN Rejected("symlink points outside base_dir")
                  ELSE Accepted(abs)

\* The filesystems of the model: a fixed tree inside and outside the base
\* directory, and two symlinks inside it, /base/lnk and /base/docs/lnk, each
\* absent or pointing at one of LinkTargets.
Tree ==
    (<<>> :> Dir) @@ (<<"base">> :> Dir) @@ (<<"base", "docs">> :> Dir)
    @@ (<<"base", "docs", "a">> :> File) @@ (<<"base", "f">> :> File)
    @@ (<<"etc">> :> Dir) @@ (<<"etc", "passwd">> :> File) @@ (<<"etc", "ssl">> :> Dir)

LinkTargets ==
    { <<"etc">>, <<"etc", "passwd">>, <<"etc", "nope">>, <<>>,
      <<"base">>, <<"base", "docs">>, <<"base", "docs", "a">>,
      <<"base", "lnk">>, <<"base", "docs", "lnk">> }

NoLink == <<"-">>

WithLink(f, at, t) == IF t = NoLink THEN f ELSE (at :> Symlink(t)) @@ f

Layouts ==
    { WithLink(WithLink(Tree, <<"base", "lnk">>, t1), <<"base", "docs", "lnk">>, t2) :
        t1 \in LinkTargets \cup {NoLink}, t2 \in LinkTargets \cup {NoLink} }

Rel_(segs) == [dash |-> FALSE, abs |-> FALSE, segs |-> segs]
Abs_(segs) == [dash |-> FALSE, abs |-> TRUE, segs |-> segs]

\* The path arguments of the model.
UserPaths ==
    { Rel_(<<>>), Rel_(<<" ">>), Rel_(<<".">>), Rel_(<<"..">>),
      Rel_(<<"docs">>), Rel_(<<"docs", "a">>), Rel_(<<"f">>), Rel_(<<"nope">>),
      Rel_(<<"lnk">>), Rel_(<<"lnk", "passwd">>), Rel_(<<"lnk", "ssl">>),
      Rel_(<<"docs", "lnk">>), Rel_(<<"..", "lnk", "a">>),
      Rel_(<<"..", "etc", "passwd">>), Rel_(<<"docs", "..", "..", "etc">>),
      Rel_(<<"..", "base", "docs">>), Rel_(<<"..", "..", "base">>),
      Abs_(<<>>), Abs_(<<"etc", "passwd">>), Abs_(<<"base">>),
      Abs_(<<"base", "docs", "lnk">>), Abs_(<<"base", "..", "etc">>),
      Abs_(<<"base", "lnk", "passwd">>) }

\* The working directories sanitizePath is applied with: paths inside the base.
Cwds == { <<"base">>, <<"base", "docs">>, <<"base", "lnk">> }

NoSanitize == [called |-> FALSE, cwd |-> <<>>, p |-> Rel_(<<>>), res |-> Rejected("")]

\* One application of sanitizePath.
Sanitize(cwd, p) ==
    /\ sp' = [called |-> TRUE, cwd |-> cwd, p |-> p, res |-> sanitizePath(fs, Base, cwd, p)]
    /\ UNCHANGED fs

InitPath ==
    /\ fs \in Layouts
    /\ sp = NoSanitize
    /\ RLRest /\ CwdRest /\ PipeRest

NextPath ==
    \E cwd \in Cwds, p \in UserPaths : Sanitize(cwd, p) /\ UNCHANGED <<rlVars, cwdVars, pipeVars>>

SpecPath == InitPath /\ [][NextPath]_vars

(***************************************************************************)
(* Claims about path resolution.                                           *)
(***************************************************************************)
\* The path as the code cleaned it, before any check.
CleanedPath == IF sp.p.abs THEN Clean(sp.p.segs) ELSE Join(sp.cwd, sp.p.segs)

\* q is textually the base directory or below it.
InsideBase(q) == Len(q) >= Len(Base) /\ SubSeq(q, 1, Len(Base)) = Base

\* The file a path denotes when it is opened: all its symlinks resolved.
Denoted(q) == Walk(fs, <<>>, q, MaxLinks)

\* C4: when sanitizePath accepts p, the file the returned path denotes is the
\* base directory or a descendant of it, also when p has ".." segments or a
\* non-final component that is a symlink to a place outside the base.
C4_ResultDenotesInsideBase ==
    (sp.called /\ sp.res.ok /\ Denoted(sp.res.path).ok)
        => InsideBase(Denoted(sp.res.path).path)

\* C5: when the cleaned path (which passed the textual containment check)
\* exists and is itself a symlink whose target resolves to a place outside
\* the base, sanitizePath returns no path and the error "symlink points
\* outside base_dir".
C5_FinalSymlinkRechecked ==
    (/\ sp.called /\ ~IsBlank(sp.p)
     /\ InsideBase(CleanedPath)
     /\ Lstat(fs, CleanedPath).ok /\ Lstat(fs, CleanedPath).kind = "link"
     /\ Denoted(CleanedPath).ok /\ ~InsideBase(Denoted(CleanedPath).path))
        => (~sp.res.ok /\ sp.res.path = <<>> /\ sp.res.err = "symlink points outside base_dir")

\* "docs/lnk" was resolved where /base/docs/lnk -> /base/lnk -> /etc/passwd:
\* the link is followed through a second link to a file outside the base.
C5_Witness ==
    /\ sp.called /\ sp.cwd = Base /\ sp.p = Rel_(<<"docs", "lnk">>)
    /\ IsLink(fs, <<"base", "docs", "lnk">>, <<"base", "lnk">>)
    /\ IsLink(fs, <<"base", "lnk">>, <<"etc", "passwd">>)
    /\ sp.res.err = "symlink points outside base_dir"

(***************************************************************************)
(* chatCWDStore and the dynamic commands (local_exec.go).                  *)
(***************************************************************************)
Chats == {1, 2}

\* No entry in byID.
Unset == <<"-">>

newChatCWD == [c \in Chats |-> Unset]

\* Mutant of storeGet: the base is returned whatever was set.
storeGetAlwaysBase(m, chatID, base) == base

\* chatCWDStore.get: the value returned, and the map it leaves (the entry is
\* created on first access).
storeGet(m, chatID, base)   == IF m[chatID] # Unset THEN m[chatID] ELSE base
storeGot(m, chatID, base)   == IF m[chatID] # Unset THEN m ELSE [m EXCEPT ![chatID] = base]

\* Mutant of storeSet: an entry that exists is not overwritten.
storeSetIfAbsent(m, chatID, dir) == IF m[chatID] = Unset THEN [m EXCEPT ![chatID] = dir] ELSE m

\* Mutant of storeSet: the directory is stored for every chat.
storeSetEveryChat(m, chatID, dir) == [c \in DOMAIN m |-> dir]

\* chatCWDStore.set
storeSet(m, chatID, dir) == [m EXCEPT ![chatID] = dir]

\* api.CommandResponse; spawn is what was handed to exec.CommandContext.  The
\* field Error is the text err followed by errArg, the argument joined to it.
NoSpawn == [exec |-> "", args |-> <<>>, dir |-> <<>>]

Response(ok, exit, stdout, err) ==
    [ok |-> ok, exit |-> exit, stdout |-> stdout, stderr |-> <<>>, err |-> err,
     errArg |-> "", spawn |-> NoSpawn]

Reject(err) == Response(FALSE, 1, <<>>, err)

\* api.CommandResponse{Ok: false, ExitCode: 1, Error: err + arg}
RejectNaming(err, arg) == [Reject(err) EXCEPT !.errArg = arg]

\* What cmd.Run() returns: nil, an *exec.ExitError of a process that exited
\* with a status, an *exec.ExitError of a process killed by a signal, the
\* context's error, or an error starting the process.
RunErrors ==
    { [kind |-> "nil", code |-> 0, text |-> ""],
      [kind |-> "exit", code |-> 2, text |-> "exit status 2"],
      [kind |-> "exit", code |-> -1, text |-> "signal: killed"],
      [kind |-> "ctx", code |-> 0, text |-> "context deadline exceeded"],
      [kind |-> "start", code |-> 0, text |-> "fork/exec: no such file or directory"] }

\* exitCode(err), for err # nil
exitCode(e) ==
    IF e.kind = "ctx" THEN 124
    ELSE IF e.text = "signal: killed" THEN 137
    ELSE IF e.kind = "exit" THEN e.code
    ELSE 1

\* A captured stream, as runs of equal bytes: <<[ch |-> "a", n |-> 1024]>> is
\* 1024 times "a".
Run_(ch, n) == [ch |-> ch, n |-> n]

\* len(s)
RECURSIVE StreamLen(_)
StreamLen(s) == IF s = <<>> THEN 0 ELSE Head(s).n + StreamLen(Tail(s))

\* s[:k]
RECURSIVE Take(_, _)
Take(s, k) ==
    IF k <= 0 \/ s = <<>> THEN <<>>
    ELSE IF Head(s).n <= k THEN <<Head(s)>> \o Take(Tail(s), k - Head(s).n)
    ELSE <<Run_(Head(s).ch, k)>>

\* The literal "\n[truncated]\n", 13 bytes.
TruncatedMarker == Run_("\n[truncated]\n", 13)

\* Bytes in a kilobyte.
KB == 1024

\* Mutant of limitOutput: a long stream is cut without the marker.
limitOutputNoMarker(s, maxKB) ==
    LET maxBytes == maxKB * KB
    IN  IF StreamLen(s) <= maxBytes THEN s ELSE Take(s, maxBytes)

\* limitOutput(s, maxKB)
limitOutput(s, maxKB) ==
    LET maxBytes == maxKB * KB
    IN  IF StreamLen(s) <= maxBytes THEN s
        ELSE Take(s, maxBytes) \o <<TruncatedMarker>>

\* A child process: how it would end if left alone ("exit" with a status,
\* "signal" when another process kills it with sig, "nostart" when it cannot
\* be started, "ctxdone" when the context is already done at cmd.Start), for
\* how many seconds it runs, and what it writes.
Proc(end, status, sig, dur, stdout, stderr) ==
    [end |-> end, status |-> status, sig |-> sig, dur |-> dur,
     stdout |-> stdout, stderr |-> stderr]

\* The child is still running when the timeout of the call expires.
TimesOut(p, timeoutSec) == p.end \in {"exit", "signal"} /\ p.dur >= timeoutSec

\* cmd.Run() of a command made by exec.CommandContext with a deadline of
\* timeoutSec seconds.  When the deadline passes first the child is killed
\* with SIGKILL, and Wait reports how the child ended, an *exec.ExitError of
\* a process killed by a signal, not the context's error.
cmdRun(p, timeoutSec) ==
    IF p.end = "nostart"
    THEN [kind |-> "start", code |-> 0, text |-> "fork/exec: no such file or directory"]
    ELSE IF p.end = "ctxdone"
    THEN [kind |-> "ctx", code |-> 0, text |-> "context deadline exceeded"]
    ELSE IF TimesOut(p, timeoutSec)
    THEN [kind |-> "exit", code |-> -1, text |-> "signal: killed"]
    ELSE IF p.end = "signal"
    THEN [kind |-> "exit", code |-> -1, text |-> p.sig]
    ELSE IF p.status = 0
    THEN [kind |-> "nil", code |-> 0, text |-> ""]
    ELSE [kind |-> "exit", code |-> p.status, text |-> "exit status " \o ToString(p.status)]

\* What is captured of a stream: all of it, or what was written before the
\* child was killed at the deadline.
Captured(stream, p, timeoutSec) ==
    IF p.end \in {"nostart", "ctxdone"} THEN <<>>
    ELSE IF TimesOut(p, timeoutSec) THEN Take(stream, StreamLen(stream) \div 2)
    ELSE stream

\* Mutant of runResponse: the response says ok whatever cmd.Run() returned.
runResponseAlwaysOk(execPath, args, dir, p, timeoutSec, maxKB) ==
    LET e == cmdRun(p, timeoutSec)
    IN  [ok |-> TRUE,
         exit |-> IF e.kind = "nil" THEN 0 ELSE exitCode(e),
         stdout |-> limitOutput(Captured(p.stdout, p, timeoutSec), maxKB),
         stderr |-> limitOutput(Captured(p.stderr, p, timeoutSec), maxKB),
         err |-> e.text,
         errArg |-> "",
         spawn |-> [exec |-> execPath, args |-> args, dir |-> dir]]

\* The code shared by localExecutor.Execute, runAllowedCommand and runCommand
\* from cmd.Run() on: the response made of the error and the two buffers.
runResponse(execPath, args, dir, p, timeoutSec, maxKB) ==
    LET e == cmdRun(p, timeoutSec)
    IN  [ok |-> e.kind = "nil",
         exit |-> IF e.kind = "nil" THEN 0 ELSE exitCode(e),
         stdout |-> limitOutput(Captured(p.stdout, p, timeoutSec), maxKB),
         stderr |-> limitOutput(Captured(p.stderr, p, timeoutSec), maxKB),
         err |-> e.text,
         errArg |-> "",
         spawn |-> [exec |-> execPath, args |-> args, dir |-> dir]]

\* runCommand(baseAbs, execPath, args, timeoutSec, maxKB), run on the child p.
runCommand(dir, execPath, args, timeoutSec, maxKB, p) ==
    runResponse(execPath, args, dir, p, timeoutSec, maxKB)

IsFlag(a) == a.dash

Flag_(text) == [dash |-> TRUE, abs |-> FALSE, segs |-> <<text>>]

isAllowedLsFlagAny(a) == TRUE

\* isAllowedLsFlag
isAllowedLsFlag(a) ==
    a.segs \in { <<"-a">>, <<"-l">>, <<"-h">>, <<"-t">>, <<"-r">>, <<"-1">>, <<"-la">>, <<"-al">> }

\* The loop of runSafeList over args: the first rejection, or the flags and
\* the resolved paths.
RECURSIVE listArgs(_, _, _, _, _, _)
listArgs(f, baseAbs, cwdAbs, args, flags, paths) ==
    IF args = <<>>
    THEN [ok |-> TRUE, flags |-> flags, paths |-> paths, err |-> "", arg |-> ""]
    ELSE LET a == Head(args)
             r == sanitizePath(f, baseAbs, cwdAbs, a)
         IN  IF IsFlag(a)
             THEN IF ~isAllowedLsFlag(a)
                  THEN [ok |-> FALSE, flags |-> flags, paths |-> paths,
                        err |-> "ls flag not allowed: ", arg |-> a.segs[1]]
                  ELSE listArgs(f, baseAbs, cwdAbs, Tail(args), Append(flags, a.segs), paths)
             ELSE IF ~r.ok
                  THEN [ok |-> FALSE, flags |-> flags, paths |-> paths, err |-> r.err,
                        arg |-> ""]
                  ELSE listArgs(f, baseAbs, cwdAbs, Tail(args), flags, Append(paths, r.path))

\* runSafeList; isLL is strings.ToLower(cmd) == "ll", p the child spawned.
runSafeList(f, baseAbs, cwdAbs, isLL, args, timeoutSec, maxKB, p) ==
    LET r == listArgs(f, baseAbs, cwdAbs, args, IF isLL THEN << <<"-la">> >> ELSE <<>>, <<>>)
    IN  IF ~r.ok THEN RejectNaming(r.err, r.arg)
        ELSE runCommand(cwdAbs, "/bin/ls",
                        r.flags \o (IF r.paths = <<>> THEN <<cwdAbs>> ELSE r.paths),
                        timeoutSec, maxKB, p)

RECURSIVE catArgsSkipsRejected(_, _, _, _, _)
catArgsSkipsRejected(f, baseAbs, cwdAbs, args, paths) ==
    IF args = <<>> THEN [ok |-> TRUE, paths |-> paths, err |-> ""]
    ELSE LET a == Head(args)
             r == sanitizePath(f, baseAbs, cwdAbs, a)
         IN  IF IsFlag(a) THEN [ok |-> FALSE, paths |-> paths, err |-> "cat flags not allowed"]
             ELSE IF ~r.ok THEN catArgsSkipsRejected(f, baseAbs, cwdAbs, Tail(args), paths)
             ELSE catArgsSkipsRejected(f, baseAbs, cwdAbs, Tail(args), Append(paths, r.path))

\* The loop of runSafeCat over args.
RECURSIVE catArgs(_, _, _, _, _)
catArgs(f, baseAbs, cwdAbs, args, paths) ==
    IF args = <<>> THEN [ok |-> TRUE, paths |-> paths, err |-> ""]
    ELSE LET a == Head(args)
             r == sanitizePath(f, baseAbs, cwdAbs, a)
         IN  IF IsFlag(a) THEN [ok |-> FALSE, paths |-> paths, err |-> "cat flags not allowed"]
             ELSE IF ~r.ok THEN [ok |-> FALSE, paths |-> paths, err |-> r.err]
             ELSE catArgs(f, baseAbs, cwdAbs, Tail(args), Append(paths, r.path))

\* runSafeCat
runSafeCat(f, baseAbs, cwdAbs, args, timeoutSec, maxKB, p) ==
    IF args = <<>> THEN Reject("cat requires a file path")
    ELSE LET r == catArgs(f, baseAbs, cwdAbs, args, <<>>)
         IN  IF ~r.ok THEN Reject(r.err)
             ELSE runCommand(baseAbs, "/bin/cat", r.paths, timeoutSec, maxKB, p)

\* What runSafeCd does before its last store.set: the response when it
\* returns early, the map it leaves, and the directory still to be stored
\* (Unset when it has returned).
CdResult(resp, m, pending) == [resp |-> resp, store |-> m, pending |-> pending]

\* Mutant of runSafeCd: the directory is stored before it is validated.
runSafeCdStoresFirst(f, baseAbs, m, chatID, args) ==
    IF args = <<>>
    THEN CdResult(Response(TRUE, 0, <<baseAbs>>, ""), storeSet(m, chatID, baseAbs), Unset)
    ELSE IF Len(args) > 1
    THEN CdResult(Reject("cd accepts a single path"), m, Unset)
    ELSE LET cwd    == storeGet(m, chatID, baseAbs)
             m1     == storeGot(m, chatID, baseAbs)
             target == sanitizePath(f, baseAbs, cwd, args[1])
             info   == Stat(f, target.path)
         IN  IF ~target.ok THEN CdResult(Reject(target.err), m1, Unset)
             ELSE IF ~info.ok \/ info.kind # "dir"
                  THEN CdResult(Reject("not a directory"), storeSet(m1, chatID, target.path), Unset)
                  ELSE CdResult(Response(TRUE, 0, <<target.path>>, ""), m1, target.path)

\* Mutant of runSafeCd: a relative path is stored as typed, without resolution.
runSafeCdNoSanitize(f, baseAbs, m, chatID, args) ==
    IF args = <<>>
    THEN CdResult(Response(TRUE, 0, <<baseAbs>>, ""), storeSet(m, chatID, baseAbs), Unset)
    ELSE IF Len(args) > 1
    THEN CdResult(Reject("cd accepts a single path"), m, Unset)
    ELSE LET cwd    == storeGet(m, chatID, baseAbs)
             m1     == storeGot(m, chatID, baseAbs)
             target == IF args[1].abs THEN Clean(args[1].segs) ELSE Join(cwd, args[1].segs)
             info   == Stat(f, target)
         IN  IF ~info.ok \/ info.kind # "dir"
             THEN CdResult(Reject("not a directory"), m1, Unset)
             ELSE CdResult(Response(TRUE, 0, <<target>>, ""), m1, target)

\* runSafeCd, up to its last store.set
runSafeCd(f, baseAbs, m, chatID, args) ==
    IF args = <<>>
    THEN CdResult(Response(TRUE, 0, <<baseAbs>>, ""), storeSet(m, chatID, baseAbs), Unset)
    ELSE IF Len(args) > 1
    THEN CdResult(Reject("cd accepts a single path"), m, Unset)
    ELSE LET cwd    == storeGet(m, chatID, baseAbs)
             m1     == storeGot(m, chatID, baseAbs)
             target == sanitizePath(f, baseAbs, cwd, args[1])
             info   == Stat(f, target.path)
         IN  IF ~target.ok THEN CdResult(Reject(target.err), m1, Unset)
             ELSE IF ~info.ok \/ info.kind # "dir"
                  THEN CdResult(Reject("not a directory"), m1, Unset)
                  ELSE CdResult(Response(TRUE, 0, <<target.path>>, ""), m1, target.path)

\* The argument lists of the model.
CdArgs ==
    { <<>>, <<Rel_(<<"docs">>), Rel_(<<"f">>)>> }
    \cup { <<p>> : p \in { Rel_(<<>>), Rel_(<<".">>), Rel_(<<"..">>), Rel_(<<"docs">>),
                           Rel_(<<"f">>), Rel_(<<"nope">>), Rel_(<<"lnk">>),
                           Rel_(<<"lnk", "ssl">>), Rel_(<<"..", "etc">>),
                           Abs_(<<"base", "docs">>), Abs_(<<"etc">>) } }

ListArgs ==
    { <<>>, <<Flag_("-x")>>, <<Flag_("-a"), Rel_(<<"docs">>)>>, <<Rel_(<<"..", "etc">>)>>,
      <<Rel_(<<"docs">>), Flag_("-al"), Rel_(<<"f">>)>>,
      <<Rel_(<<"docs">>), Rel_(<<"lnk">>)>>,
      <<Flag_("-l"), Rel_(<<"docs">>), Flag_("-R")>>,
      <<Rel_(<<"..", "etc">>), Flag_("-x")>> }

CatArgs ==
    { <<>>, <<Flag_("-n")>>, <<Rel_(<<"docs", "a">>), Rel_(<<"lnk">>)>>, <<Abs_(<<"etc", "passwd">>)>>,
      <<Rel_(<<"docs", "a">>), Flag_("-n")>>,
      <<Rel_(<<"docs", "a">>), Rel_(<<"..", "etc">>), Rel_(<<"f">>)>>,
      <<Rel_(<<"docs", "a">>), Rel_(<<"f">>)>> }

\* loadConfig's defaults of the timeout (seconds) and of the output limit.
LocalDefaultTimeoutSec == 10
LocalMaxOutputKB == 8

\* The children of the model of the handlers: one that prints and exits with
\* status 0, one that exits with status 2.
HandlerProcs ==
    { Proc("exit", 0, "", 0, <<Run_("o", 6)>>, <<>>),
      Proc("exit", 2, "", 0, <<>>, <<Run_("e", 9)>>) }

\* The filesystems of the model of the handlers.
CwdLayouts ==
    { WithLink(Tree, <<"base", "lnk">>, t1) :
        t1 \in {NoLink, <<"etc">>, <<"base", "docs">>, <<"etc", "nope">>, <<"base", "f">>} }

ThrIdle == [pc |-> "idle", chat |-> 0, target |-> Unset]

\* The observer of the handlers: the handler step that ran last, its chat and
\* arguments, its response, and what store.get returned for the chat before
\* the step.
NoStep == [step |-> "none", chat |-> 0, args |-> <<>>, resp |-> Reject(""), before |-> Unset]

Did(step, chat, args, resp) ==
    [step |-> step, chat |-> chat, args |-> args, resp |-> resp,
     before |-> storeGet(byID, chat, Base)]

\* cfg.LocalBaseDir is "" or "/base".
BaseConfigured == cfg.LocalBaseDir # <<>>

BaseUnset(step, chat, args) ==
    /\ ~BaseConfigured
    /\ out' = Did(step, chat, args, Reject("execution.local.base_dir not configured"))
    /\ UNCHANGED <<byID, thr>>

\* handleDynamicCommand, case "pwd"
Pwd(c) ==
    /\ \E t \in Threads : thr[t].pc = "idle"
    /\ \/ BaseUnset("pwd", c, <<>>)
       \/ /\ BaseConfigured
          /\ byID' = storeGot(byID, c, Base)
          /\ out' = Did("pwd", c, <<>>, Response(TRUE, 0, <<storeGet(byID, c, Base)>>, ""))
          /\ UNCHANGED thr
    /\ UNCHANGED <<fs, cfg>>

\* handleDynamicCommand, case "ls", "ll"
List(c, isLL, args, p) ==
    /\ \E t \in Threads : thr[t].pc = "idle"
    /\ \/ BaseUnset(IF isLL THEN "ll" ELSE "ls", c, args)
       \/ /\ BaseConfigured
          /\ byID' = storeGot(byID, c, Base)
          /\ out' = Did(IF isLL THEN "ll" ELSE "ls", c, args,
                        runSafeList(fs, Base, storeGet(byID, c, Base), isLL, args,
                                    LocalDefaultTimeoutSec, LocalMaxOutputKB, p))
          /\ UNCHANGED thr
    /\ UNCHANGED <<fs, cfg>>

\* handleDynamicCommand, case "cat"
Cat(c, args, p) ==
    /\ \E t \in Threads : thr[t].pc = "idle"
    /\ \/ BaseUnset("cat", c, args)
       \/ /\ BaseConfigured
          /\ byID' = storeGot(byID, c, Base)
          /\ out' = Did("cat", c, args,
                        runSafeCat(fs, Base, storeGet(byID, c, Base), args,
                                   LocalDefaultTimeoutSec, LocalMaxOutputKB, p))
          /\ UNCHANGED thr
    /\ UNCHANGED <<fs, cfg>>

\* handleDynamicCommand, case "cd": runSafeCd up to its last store.set.  When
\* the directory is valid the goroutine still has to take the lock again.
CdBegin(t, c, args) ==
    /\ thr[t].pc = "idle"
    /\ \/ BaseUnset("cd", c, args)
       \/ /\ BaseConfigured
          /\ LET r == runSafeCd(fs, Base, byID, c, args)
             IN  /\ byID' = r.store
                 /\ IF r.pending = Unset
                    THEN /\ out' = Did("cd", c, args, r.resp)
                         /\ UNCHANGED thr
                    ELSE /\ out' = Did("cd_get", c, args, r.resp)
                         /\ thr' = [thr EXCEPT ![t] = [pc |-> "cd_set", chat |-> c,
                                                       target |-> r.pending]]
    /\ UNCHANGED <<fs, cfg>>

\* runSafeCd: store.set(chatID, target) and the response.
CdSet(t) ==
    /\ thr[t].pc = "cd_set"
    /\ byID' = storeSet(byID, thr[t].chat, thr[t].target)
    /\ out' = Did("cd_set", thr[t].chat, <<>>, Response(TRUE, 0, <<thr[t].target>>, ""))
    /\ thr' = [thr EXCEPT ![t] = ThrIdle]
    /\ UNCHANGED <<fs, cfg>>

InitCwd ==
    /\ fs \in CwdLayouts
    /\ cfg \in {[LocalBaseDir |-> <<>>], [LocalBaseDir |-> Base]}
    /\ byID = newChatCWD
    /\ thr = [t \in Threads |-> ThrIdle]
    /\ out = NoStep
    /\ sp = <<>>
    /\ RLRest

NextCwd ==
    \/ \E c \in Chats : Pwd(c) /\ UNCHANGED <<rlVars, sp>>
    \/ \E c \in Chats, isLL \in BOOLEAN, args \in ListArgs, p \in HandlerProcs :
          List(c, isLL, args, p) /\ UNCHANGED <<rlVars, sp>>
    \/ \E c \in Chats, args \in CatArgs, p \in HandlerProcs :
          Cat(c, args, p) /\ UNCHANGED <<rlVars, sp>>
    \/ \E t \in Threads, c \in Chats, args \in CdArgs : CdBegin(t, c, args) /\ UNCHANGED <<rlVars, sp>>
    \/ \E t \in Threads : CdSet(t) /\ UNCHANGED <<rlVars, sp>>

SpecCwd == InitCwd /\ [][NextCwd]_vars

(***************************************************************************)
(* The pipeline: processUpdate (main.go).                                  *)
(***************************************************************************)
\* cfg.LLMConfidenceThreshold in percent: the default 0.7 of loadConfig.
ConfidenceThreshold == 70

W_ls   == <<"l", "s">>
W_LS   == <<"L", "S">>
W_Ls   == <<"L", "s">>
W_rm   == <<"r", "m">>
W_help == <<"h", "e", "l", "p">>
W_HELP == <<"H", "E", "L", "P">>
W_chat == <<"c", "h", "a", "t">>
W_Chat == <<"C", "h", "a", "t">>
W_command == <<"c", "o", "m", "m", "a", "n", "d">>

\* Mutant of isAllowed: any user passes when a list is configured.
isAllowedAny(userID, allowed) == allowed # <<>>

\* isAllowed(userID, allowed)
isAllowed(userID, allowed) == \E i \in DOMAIN allowed : allowed[i] = userID

\* Mutant of isCommandAllowed: every command passes the allowlist.
isCommandAllowedAlways(cmd, allow) == TRUE

\* isCommandAllowed(cmd, allow)
isCommandAllowed(cmd, allow) == \E i \in DOMAIN allow : EqualFold(cmd, allow[i])

\* Mutant of isCommandBlocked: the comparison is case-sensitive.
isCommandBlockedExact(cmd, block) == \E i \in DOMAIN block : cmd = block[i]

\* isCommandBlocked(cmd, block)
isCommandBlocked(cmd, block) == \E i \in DOMAIN block : EqualFold(cmd, block[i])

normalizeCommandFoldsArgs(text) ==
    LET parts == Fields(TrimSpace(text))
    IN  IF parts = <<>> THEN [cmd |-> <<>>, args |-> <<>>]
        ELSE [cmd |-> ToLower(TrimSlash(parts[1])),
              args |-> [i \in 1..(Len(parts) - 1) |-> ToLower(parts[i + 1])]]

\* normalizeCommand(text)
normalizeCommand(text) ==
    LET parts == Fields(TrimSpace(text))
    IN  IF parts = <<>> THEN [cmd |-> <<>>, args |-> <<>>]
        ELSE [cmd |-> ToLower(TrimSlash(parts[1])), args |-> Tail(parts)]

\* Mutant of sendTelegramMessage: what is joined to the fixed text is lost.
sendTelegramMessageNoDetail(token, chatID, text, data, net) ==
    [chat |-> chatID, text |-> text, data |-> <<>>, delivered |-> (token # "" /\ net)]

\* One call of sendTelegramMessage(token, chatID, text): the text is a fixed
\* string and the data joined to it; the message is delivered when the token
\* is set and the transport answers 200 (net).
sendTelegramMessage(token, chatID, text, data, net) ==
    [chat |-> chatID, text |-> text, data |-> data, delivered |-> (token # "" /\ net)]

\* renderResponse(cmd, resp)
renderResponse(cmd, resp) ==
    IF resp.ok
    THEN [text |-> "%s:\n%s", data |-> <<cmd, IF resp.stdout = <<>> THEN "(no output)" ELSE resp.stdout>>]
    ELSE [text |-> "%s failed (exit %d): %s",
          data |-> <<cmd, resp.exit, IF resp.err = "" THEN "command failed" ELSE resp.err>>]

\* What processUpdate did: the calls of sendTelegramMessage, of the executor
\* and of the classifier, the stages it entered in order, the result of
\* rl.allow ("skipped" when it was not called) and the limiter's map after it.
Outcome(sends, execs, llm, stages, rl, st) ==
    [sends |-> sends, execs |-> execs, llm |-> llm, stages |-> stages, rl |-> rl, stamp |-> st]

\* Mutant of rlAllow: one list of timestamps for all identities.
rlAllowOneWindow(st, userID, now, max) ==
    IF limiterDisabled(max) THEN [ok |-> TRUE, stamp |-> st]
    ELSE LET r == allowLocked(st[userID], now, max)
         IN  [ok |-> r.ok, stamp |-> [u \in DOMAIN st |-> r.list]]

\* rl.allow(userID) called at time now, as one step.
rlAllow(st, userID, now, max) ==
    IF limiterDisabled(max) THEN [ok |-> TRUE, stamp |-> st]
    ELSE LET r == allowLocked(st[userID], now, max)
         IN  [ok |-> r.ok, stamp |-> [st EXCEPT ![userID] = r.list]]

\* Mutant of isHelp: no command is taken for help.
isHelpNever(cmd) == FALSE

\* cmd == "help"
isHelp(cmd) == cmd = W_help

\* Mutant of belowThreshold: a confidence equal to the threshold is rejected too.
belowThresholdOrEqual(confidence, threshold) == confidence <= threshold

\* decision.Confidence < cfg.LLMConfidenceThreshold
belowThreshold(confidence, threshold) == confidence < threshold

\* Mutant of chatReply: a blank response is sent as it is.
chatReplyNoFallback(dec) == [text |-> "", data |-> <<dec.Response>>]

\* The reply to a decision of type chat: its response, or the fallback text
\* when the response is blank.
chatReply(dec) ==
    IF TrimSpace(dec.Response) = <<>>
    THEN [text |-> "I didn't understand that. Try a command or ask again.", data |-> <<>>]
    ELSE [text |-> "", data |-> <<dec.Response>>]

\* Mutant of policyAndExecute: an error of the executor is not reported.
policyAndExecuteSilentError(c, upd, cmd, args, ex, net, llm, stages, st) ==
    LET say(text, data) == <<sendTelegramMessage(c.TelegramBotToken, upd.chat, text, data, net)>>
        req == [Command |-> cmd, UserID |-> upd.user, ChatID |-> upd.chat,
                Text |-> upd.text, Args |-> args]
    IN  IF isCommandBlocked(cmd, c.CommandBlocklist)
        THEN Outcome(say("Command blocked.", <<>>), <<>>, llm,
                     stages \o <<"blocklist">>, "allowed", st)
        ELSE IF ~isCommandAllowed(cmd, c.CommandAllowlist)
        THEN Outcome(say("Command not allowed.", <<>>), <<>>, llm,
                     stages \o <<"blocklist", "allowlist">>, "allowed", st)
        ELSE IF ex.err # ""
        THEN Outcome(<<>>, <<req>>, llm,
                     stages \o <<"blocklist", "allowlist", "exec">>, "allowed", st)
        ELSE LET reply == renderResponse(cmd, ex.resp)
             IN  Outcome(say(reply.text, reply.data), <<req>>, llm,
                         stages \o <<"blocklist", "allowlist", "exec">>, "allowed", st)

\* processUpdate from the policy check on (the same code in both routing
\* modes): blocklist, allowlist, executor, reply.  ex is what the executor
\* returns: an error or a response.
policyAndExecute(c, upd, cmd, args, ex, net, llm, stages, st) ==
    LET say(text, data) == <<sendTelegramMessage(c.TelegramBotToken, upd.chat, text, data, net)>>
        req == [Command |-> cmd, UserID |-> upd.user, ChatID |-> upd.chat,
                Text |-> upd.text, Args |-> args]
    IN  IF isCommandBlocked(cmd, c.CommandBlocklist)
        THEN Outcome(say("Command blocked.", <<>>), <<>>, llm,
                     stages \o <<"blocklist">>, "allowed", st)
        ELSE IF ~isCommandAllowed(cmd, c.CommandAllowlist)
        THEN Outcome(say("Command not allowed.", <<>>), <<>>, llm,
                     stages \o <<"blocklist", "allowlist">>, "allowed", st)
        ELSE IF ex.err # ""
        THEN Outcome(say("Agent error: ", <<ex.err>>), <<req>>, llm,
                     stages \o <<"blocklist", "allowlist", "exec">>, "allowed", st)
        ELSE LET reply == renderResponse(cmd, ex.resp)
             IN  Outcome(say(reply.text, reply.data), <<req>>, llm,
                         stages \o <<"blocklist", "allowlist", "exec">>, "allowed", st)

\* Mutant of processUpdate: help is a command like any other.
processUpdateHelpAsCommand(c, st, now, max, upd, dec, ex, net) ==
    LET say(text, data) == <<sendTelegramMessage(c.TelegramBotToken, upd.chat, text, data, net)>>
        rl   == rlAllow(st, upd.user, now, max)
        icmd == ToLower(TrimSpace(dec.Intent))
        norm == normalizeCommand(upd.text)
    IN  IF ~isAllowed(upd.user, c.TelegramAllowedUserIDs)
        THEN Outcome(say("Unauthorized user.", <<>>), <<>>, 0, <<"auth">>, "skipped", st)
        ELSE IF ~rl.ok
        THEN Outcome(say("Rate limit exceeded. Try again soon.", <<>>), <<>>, 0,
                     <<"auth", "rate">>, "rejected", rl.stamp)
        ELSE IF c.LLMEnabled
        THEN IF dec.err # ""
             THEN Outcome(say("LLM error: ", <<dec.err>>), <<>>, 1,
                          <<"auth", "rate", "route">>, "allowed", rl.stamp)
             ELSE IF EqualFold(dec.Type, W_chat)
             THEN Outcome(say(chatReply(dec).text, chatReply(dec).data),
                          <<>>, 1, <<"auth", "rate", "route">>, "allowed", rl.stamp)
             ELSE IF icmd = <<>>
             THEN Outcome(say("I couldn't determine a command. Try again.", <<>>), <<>>, 1,
                          <<"auth", "rate", "route">>, "allowed", rl.stamp)
             ELSE IF belowThreshold(dec.Confidence, c.LLMConfidenceThreshold)
             THEN Outcome(say("I am not confident this is a command. Please rephrase or use a direct command.", <<>>),
                          <<>>, 1, <<"auth", "rate", "route">>, "allowed", rl.stamp)
             ELSE policyAndExecute(c, upd, icmd, dec.Args, ex, net, 1,
                                   <<"auth", "rate", "route">>, rl.stamp)
        ELSE IF norm.cmd = <<>>
             THEN Outcome(say("Empty command.", <<>>), <<>>, 0,
                          <<"auth", "rate", "route">>, "allowed", rl.stamp)
             ELSE policyAndExecute(c, upd, norm.cmd, norm.args, ex, net, 0,
                                   <<"auth", "rate", "route">>, rl.stamp)

\* processUpdate(cfg, rl, exec, update) for an update with a message; dec is
\* what mapWithLLM returns when it is called, ex what the executor returns, net
\* whether the transport delivers.
processUpdate(c, st, now, max, upd, dec, ex, net) ==
    LET say(text, data) == <<sendTelegramMessage(c.TelegramBotToken, upd.chat, text, data, net)>>
        rl   == rlAllow(st, upd.user, now, max)
        icmd == ToLower(TrimSpace(dec.Intent))
        norm == normalizeCommand(upd.text)
    IN  IF ~isAllowed(upd.user, c.TelegramAllowedUserIDs)
        THEN Outcome(say("Unauthorized user.", <<>>), <<>>, 0, <<"auth">>, "skipped", st)
        ELSE IF ~rl.ok
        THEN Outcome(say("Rate limit exceeded. Try again soon.", <<>>), <<>>, 0,
                     <<"auth", "rate">>, "rejected", rl.stamp)
        ELSE IF c.LLMEnabled
        THEN IF dec.err # ""
             THEN Outcome(say("LLM error: ", <<dec.err>>), <<>>, 1,
                          <<"auth", "rate", "route">>, "allowed", rl.stamp)
             ELSE IF EqualFold(dec.Type, W_chat)
             THEN Outcome(say(chatReply(dec).text, chatReply(dec).data),
                          <<>>, 1, <<"auth", "rate", "route">>, "allowed", rl.stamp)
             ELSE IF icmd = <<>>
             THEN Outcome(say("I couldn't determine a command. Try again.", <<>>), <<>>, 1,
                          <<"auth", "rate", "route">>, "allowed", rl.stamp)
             ELSE IF belowThreshold(dec.Confidence, c.LLMConfidenceThreshold)
             THEN Outcome(say("I am not confident this is a command. Please rephrase or use a direct command.", <<>>),
                          <<>>, 1, <<"auth", "rate", "route">>, "allowed", rl.stamp)
             ELSE IF isHelp(icmd)
             THEN Outcome(say("Allowed commands: ", c.CommandAllowlist), <<>>, 1,
                          <<"auth", "rate", "route">>, "allowed", rl.stamp)
             ELSE policyAndExecute(c, upd, icmd, dec.Args, ex, net, 1,
                                   <<"auth", "rate", "route">>, rl.stamp)
        ELSE IF norm.cmd = <<>>
             THEN Outcome(say("Empty command.", <<>>), <<>>, 0,
                          <<"auth", "rate", "route">>, "allowed", rl.stamp)
             ELSE IF isHelp(norm.cmd)
             THEN Outcome(say("Allowed commands: ", c.CommandAllowlist), <<>>, 0,
                          <<"auth", "rate", "route">>, "allowed", rl.stamp)
             ELSE policyAndExecute(c, upd, norm.cmd, norm.args, ex, net, 0,
                                   <<"auth", "rate", "route">>, rl.stamp)

\* The configurations of the model.
Allowlists == { <<>>, <<W_ls, W_help>>, <<W_LS, W_rm, W_HELP>> }
Blocklists == { <<>>, <<W_Ls>>, <<W_rm, W_help>> }

Configs ==
    [ TelegramBotToken       : {"token"},
      TelegramAllowedUserIDs : { <<1>> },
      LLMEnabled             : BOOLEAN,
      LLMConfidenceThreshold : {ConfidenceThreshold},
      CommandAllowlist       : Allowlists,
      CommandBlocklist       : Blocklists ]
    \cup
    [ TelegramBotToken       : {""},
      TelegramAllowedUserIDs : { <<1>> },
      LLMEnabled             : BOOLEAN,
      LLMConfidenceThreshold : {ConfidenceThreshold},
      CommandAllowlist       : { <<W_ls, W_help>> },
      CommandBlocklist       : { <<>> } ]

\* The message texts of the model: "ls", "/LS d", "  ", "/", "/Help", "rm x",
\* " help ", "/LS  -a\tDocs ".
Texts ==
    { W_ls, <<"/", "L", "S", " ", "d">>, <<" ", " ">>, <<"/">>,
      <<"/", "H", "e", "l", "p">>, <<"r", "m", " ", "x">>,
      <<" ", "h", "e", "l", "p", " ">>,
      <<"/", "L", "S", " ", " ", "-", "a", "\t", "D", "o", "c", "s", " ">> }

Update(user, chat, text) == [hasMsg |-> TRUE, user |-> user, chat |-> chat, text |-> text]
NoMessage == [hasMsg |-> FALSE, user |-> 0, chat |-> 0, text |-> <<>>]

\* The updates of the model: user 1 is authorized, user 2 is not.  With the
\* classifier enabled the text is only passed on, and two texts are enough.
Updates(c) ==
    {NoMessage, Update(2, 1, W_ls)}
        \cup { Update(1, 1, t) : t \in (IF c.LLMEnabled THEN {W_ls, <<" ", " ">>} ELSE Texts) }

Decision(err, type, intent, args, response, confidence) ==
    [err |-> err, Type |-> type, Intent |-> intent, Args |-> args,
     Response |-> response, Confidence |-> confidence]

NoDecision == Decision("", <<>>, <<>>, <<>>, <<>>, 0)

\* What the classifier answers in the model.
Decisions ==
    { Decision("llm returned no usable output", <<>>, <<>>, <<>>, <<>>, 0),
      Decision("", W_chat, W_ls, <<>>, <<"h", "i">>, 90),
      Decision("", W_Chat, W_rm, <<>>, <<" ">>, 90),
      Decision("", W_command, <<" ">>, <<>>, <<>>, 90),
      Decision("", W_command, <<" ", "L", "S", " ">>, << <<"d">> >>, <<>>, 90),
      Decision("", W_command, W_ls, <<>>, <<>>, 70),
      Decision("", W_command, W_ls, <<>>, <<>>, 69),
      Decision("", W_command, W_rm, <<>>, <<>>, 90),
      Decision("", W_command, W_HELP, <<>>, <<>>, 90),
      Decision("", W_command, W_help, <<>>, <<>>, 10) }

\* What the executor returns in the model: an error, or a response.
ExecResults ==
    { [err |-> "agent status 403", resp |-> Reject("")],
      [err |-> "", resp |-> Response(TRUE, 0, <<"output">>, "")],
      [err |-> "", resp |-> Response(FALSE, 2, <<>>, "exit status 2")] }

NoUpdate == [handled |-> FALSE, upd |-> NoMessage, dec |-> NoDecision,
             res |-> Outcome(<<>>, <<>>, 0, <<>>, "skipped", newRateLimiter)]

\* processUpdate on one update.
ProcessUpdate(upd, dec, ex, net) ==
    /\ IF ~upd.hasMsg
       THEN /\ out' = [handled |-> TRUE, upd |-> upd, dec |-> NoDecision,
                       res |-> Outcome(<<>>, <<>>, 0, <<>>, "skipped", stamp)]
            /\ UNCHANGED stamp
       ELSE LET r == processUpdate(cfg, stamp, clock, rlMax, upd, dec, ex, net)
            IN  /\ out' = [handled |-> TRUE, upd |-> upd,
                           dec |-> IF r.llm = 0 THEN NoDecision ELSE dec, res |-> r]
                /\ stamp' = r.stamp
    /\ UNCHANGED <<cfg, rlMax, clock, rlThr, rlLog>>

Init ==
    /\ cfg \in Configs
    /\ rlMax \in {0, 1}
    /\ stamp = newRateLimiter
    /\ clock = 0
    /\ rlThr = [t \in Threads |-> RLIdle]
    /\ rlLog = NoLog
    /\ out = NoUpdate
    /\ PathRest
    /\ byID = <<>> /\ thr = <<>>

Next ==
    \/ \E upd \in Updates(cfg), ex \in ExecResults, net \in BOOLEAN :
          \E dec \in (IF cfg.LLMEnabled THEN Decisions ELSE {NoDecision}) :
             ProcessUpdate(upd, dec, ex, net) /\ UNCHANGED <<pathVars, cwdVars>>
    \/ Tick /\ UNCHANGED <<pathVars, cwdVars, pipeVars>>

Spec == Init /\ [][Next]_vars

(***************************************************************************)
(* The executors: localExecutor.Execute (local_exec.go), agentExecutor     *)
(* .Execute and the agent's command handler.                               *)
(***************************************************************************)
W_pwd    == <<"p", "w", "d">>
W_ll     == <<"l", "l">>
W_cat    == <<"c", "a", "t">>
W_cd     == <<"c", "d">>
W_touch  == <<"t", "o", "u", "c", "h">>
W_status == <<"s", "t", "a", "t", "u", "s">>
W_Status == <<"S", "t", "a", "t", "u", "s">>
W_Cat    == <<"C", "a", "t">>

\* Mutant of isDynamicAllowed: the comparison is case-sensitive.
isDynamicAllowedExact(cmd, allowed) == \E i \in DOMAIN allowed : cmd = allowed[i]

\* isDynamicAllowed(cmd, allowed)
isDynamicAllowed(cmd, allowed) == \E i \in DOMAIN allowed : EqualFold(cmd, allowed[i])

\* Mutant of isBlocked: the comparison is case-sensitive.
isBlockedExact(cmd, blocklist) == \E i \in DOMAIN blocklist : cmd = blocklist[i]

\* isBlocked(cmd, blocklist) of the agent
isBlocked(cmd, blocklist) == \E i \in DOMAIN blocklist : EqualFold(cmd, blocklist[i])

\* What an executor returns and the map of working directories it leaves.
Executed(resp, m) == [resp |-> resp, store |-> m]

\* The working directory of a static command: cmd.Dir is not set.
InheritDir == <<"(inherited)">>

\* runSafeCd to its end: the last store.set is done when cd left one to do.
cdStored(cd, chatID) ==
    Executed(cd.resp, IF cd.pending = Unset THEN cd.store
                      ELSE storeSet(cd.store, chatID, cd.pending))

\* handleDynamicCommand(cfg, store, chatID, cmd, args) of the broker
\* (who = "local") and of the agent (who = "agent"), which differ in one text;
\* p is the child spawned by ls and cat.
handleDynamicCommand(who, c, f, m, chatID, cmd, args, p) ==
    IF c.BaseDir = <<>>
    THEN Executed(Reject(IF who = "local" THEN "execution.local.base_dir not configured"
                         ELSE "base_dir not configured"), m)
    ELSE LET baseAbs == c.BaseDir
             lower   == ToLower(cmd)
             cwd     == storeGet(m, chatID, baseAbs)
             m1      == storeGot(m, chatID, baseAbs)
         IN  IF lower = W_pwd
             THEN Executed(Response(TRUE, 0, <<cwd>>, ""), m1)
             ELSE IF lower = W_ls \/ lower = W_ll
             THEN Executed(runSafeList(f, baseAbs, cwd, lower = W_ll, args,
                                       c.DefaultTimeoutSec, c.MaxOutputKB, p), m1)
             ELSE IF lower = W_cat
             THEN Executed(runSafeCat(f, baseAbs, cwd, args,
                                      c.DefaultTimeoutSec, c.MaxOutputKB, p), m1)
             ELSE IF lower = W_cd
             THEN cdStored(runSafeCd(f, baseAbs, m, chatID, args), chatID)
             ELSE Executed(Reject("unsupported dynamic command"), m)

\* Mutant of runStatic: the arguments of the request follow the configured ones.
runStaticWithRequestArgs(allowed, req, p, timeoutSec, maxKB) ==
    runResponse(allowed.Exec, allowed.Args \o [i \in DOMAIN req.Args |-> "arg"],
                InheritDir, p, timeoutSec, maxKB)

\* The static branch of localExecutor.Execute, and runAllowedCommand of the
\* agent: exec.CommandContext(ctx, allowed.Exec, allowed.Args...) and its run.
runStatic(allowed, req, p, timeoutSec, maxKB) ==
    runResponse(allowed.Exec, allowed.Args, InheritDir, p, timeoutSec, maxKB)

\* localExecutor.Execute(ctx, req)
localExecute(c, f, m, req, p) ==
    LET cmdName == TrimSpace(req.Command)
    IN  IF cmdName = <<>> THEN Executed(Reject("empty command"), m)
        ELSE IF isDynamicAllowed(cmdName, c.DynamicAllowlist)
        THEN handleDynamicCommand("local", c, f, m, req.ChatID, cmdName, req.Args, p)
        ELSE IF cmdName \notin DOMAIN c.CommandAllowlist
        THEN Executed(Reject("command not allowed"), m)
        ELSE Executed(runStatic(c.CommandAllowlist[cmdName], req, p,
                                c.DefaultTimeoutSec, c.MaxOutputKB), m)

\* agentExecutor.Execute(ctx, req)
agentExecute(c, f, m, req, p) ==
    LET cmdName == TrimSpace(req.Command)
    IN  IF cmdName = <<>> THEN Executed(Reject("empty command"), m)
        ELSE IF isBlocked(cmdName, c.CommandBlocklist)
        THEN Executed(Reject("command blocked"), m)
        ELSE IF isDynamicAllowed(cmdName, c.DynamicAllowlist)
        THEN handleDynamicCommand("agent", c, f, m, req.ChatID, cmdName, req.Args, p)
        ELSE IF cmdName \notin DOMAIN c.CommandAllowlist
        THEN Executed(Reject("command not allowed"), m)
        ELSE Executed(runStatic(c.CommandAllowlist[cmdName], req, p,
                                c.DefaultTimeoutSec, c.MaxOutputKB), m)

\* HTTP status codes written by the command handler.
StatusOK == 200
StatusBadRequest == 400
StatusUnauthorized == 401
StatusForbidden == 403
StatusMethodNotAllowed == 405

\* What the command handler wrote: the status, the response encoded as the
\* body when there is one, whether exec.Execute was called, and the map left.
Handled_(status, hasBody, resp, called, m) ==
    [status |-> status, hasBody |-> hasBody, resp |-> resp, called |-> called, store |-> m]

\* Mutant of tokenMatches: a request without the header passes.
tokenMatchesOrAbsent(authToken, header) ==
    authToken = "" \/ header = "" \/ header = authToken

\* The token check of the command handler: with a token configured, the value
\* of the X-Auth-Token header ("" when absent) has to be equal to it.
tokenMatches(authToken, header) ==
    authToken = "" \/ header = authToken

\* Mutant of statusOf: every response is written with 200.
statusOfAlwaysOK(resp) == StatusOK

\* The status the command handler writes with the response resp.
statusOf(resp) ==
    IF resp.ok THEN StatusOK
    ELSE IF resp.err = "empty command" THEN StatusBadRequest
    ELSE IF resp.err \in {"command blocked", "command not allowed"} THEN StatusForbidden
    ELSE StatusOK

\* The end of the command handler: r, what exec.Execute returned, is written.
written(r) == Handled_(statusOf(r.resp), TRUE, r.resp, TRUE, r.store)

\* The handler made by newCommandHandler(cfg, exec), with the agent executor
\* as exec, on the request h; p is the child a command would spawn.
commandHandler(c, f, m, h, p) ==
    IF h.method # "POST"
    THEN Handled_(StatusMethodNotAllowed, FALSE, Reject(""), FALSE, m)
    ELSE IF ~tokenMatches(c.AuthToken, h.token)
    THEN Handled_(StatusUnauthorized, FALSE, Reject(""), FALSE, m)
    ELSE IF h.body.kind # "json"
    THEN Handled_(StatusBadRequest, FALSE, Reject(""), FALSE, m)
    ELSE written(agentExecute(c, f, m, h.body.req, p))

\* api.CommandRequest
Request(command, chatID, args) ==
    [Command |-> command, UserID |-> 1, ChatID |-> chatID, Text |-> command, Args |-> args]

\* The static commands configured in the model.
StaticCommands ==
    (W_status :> [Exec |-> "/usr/bin/uptime", Args |-> <<"-p">>])
    @@ (W_ls :> [Exec |-> "/bin/ls", Args |-> <<>>])

ExecConfigs ==
    { [ BaseDir |-> b, DynamicAllowlist |-> d, CommandAllowlist |-> StaticCommands,
        CommandBlocklist |-> x[1], AuthToken |-> x[2],
        DefaultTimeoutSec |-> y[1], MaxOutputKB |-> y[2] ] :
        b \in {<<>>, Base},
        d \in { <<>>, <<W_pwd, W_LS, W_ll, W_cat, W_cd, W_touch, W_Status>> },
        x \in { << <<>>, "" >>, << <<W_rm, W_Status, W_Cat>>, "secret" >> },
        y \in { <<2, 1>>, <<10, 2>> } }

\* The requests of the model: every command name without arguments, and the
\* commands that take them with some.
Requests ==
    { Request(n, 1, <<>>) :
        n \in { <<>>, <<" ">>, W_status, <<" ", "s", "t", "a", "t", "u", "s", " ">>,
                W_Status, W_ls, W_LS, W_ll, W_cat, W_cd, W_pwd, W_touch, W_rm } }
    \cup
    { Request(n, 1, a) :
        n \in { W_status, W_ls, W_cat, W_cd },
        a \in { <<Rel_(<<"docs">>)>>, <<Flag_("-x")>>, <<Rel_(<<"..", "etc">>)>>,
                <<Rel_(<<"docs", "a">>)>> } }

\* The children of the model.  With a timeout of 2 seconds the children that
\* run for 5 seconds are still running at the deadline; with 10 they end.
Procs ==
    { Proc("exit", 0, "", 0, <<Run_("a", 1024)>>, <<>>),
      Proc("exit", 0, "", 0, <<Run_("a", 1024), Run_("b", 1)>>, <<Run_("e", 3000)>>),
      Proc("exit", 2, "", 0, <<>>, <<Run_("e", 2048)>>),
      Proc("exit", 0, "", 5, <<Run_("a", 4096)>>, <<>>),
      Proc("exit", 3, "", 5, <<>>, <<Run_("e", 2)>>),
      Proc("signal", 0, "signal: terminated", 1, <<Run_("a", 2049)>>, <<>>),
      Proc("signal", 0, "signal: killed", 1, <<>>, <<>>),
      Proc("nostart", 0, "", 0, <<>>, <<>>),
      Proc("ctxdone", 0, "", 0, <<>>, <<>>) }

NoProc == Proc("none", 0, "", 0, <<>>, <<>>)

\* The HTTP requests of the model.
HTTPRequests ==
    { [method |-> "GET", token |-> "secret", body |-> [kind |-> "json", req |-> Request(W_status, 1, <<>>)]] }
    \cup
    { [method |-> "POST", token |-> t, body |-> [kind |-> k, req |-> Request(<<>>, 1, <<>>)]] :
        t \in {"", "secret"}, k \in {"unreadable", "badjson"} }
    \cup
    { [method |-> "POST", token |-> t, body |-> [kind |-> "json", req |-> r]] :
        t \in {"", "secret", "Secret"}, r \in Requests }

NoHTTP == [method |-> "", token |-> "", body |-> [kind |-> "", req |-> Request(<<>>, 1, <<>>)]]

\* The call being answered: who runs it ("local" for localExecutor.Execute,
\* "agent" for the command handler), on what request and child, and what comes
\* out; NoExec between two calls.
NoExec == [who |-> "none", req |-> Request(<<>>, 1, <<>>), http |-> NoHTTP, proc |-> NoProc,
           called |-> FALSE, status |-> 0, hasResp |-> FALSE, resp |-> Reject("")]

\* The call by who on req, h and p has ended with r.
Answer(who, req, h, p, r) ==
    /\ byID' = r.store
    /\ out' = [who |-> who, req |-> req, http |-> h, proc |-> p,
               called |-> r.called, status |-> r.status, hasResp |-> r.hasBody,
               resp |-> r.resp]

\* What localExecutor.Execute returns, in the form of what the handler writes.
returned(r) == Handled_(0, TRUE, r.resp, TRUE, r.store)

\* localExecutor.Execute on one request.
LocalExecute(req, p) ==
    /\ out = NoExec
    /\ Answer("local", req, NoHTTP, p, returned(localExecute(cfg, fs, byID, req, p)))
    /\ UNCHANGED <<cfg, fs>>

\* The agent's handler of /command on one HTTP request.
CommandHandler(h, p) ==
    /\ out = NoExec
    /\ Answer("agent", h.body.req, h, p, commandHandler(cfg, fs, byID, h, p))
    /\ UNCHANGED <<cfg, fs>>

\* The response is handed to the caller (return &resp, nil; writeJSON).
ExecReturn ==
    /\ out # NoExec
    /\ out' = NoExec
    /\ UNCHANGED <<cfg, fs, byID>>

InitExec ==
    /\ cfg \in ExecConfigs
    /\ fs = WithLink(Tree, <<"base", "lnk">>, <<"etc">>)
    /\ byID = newChatCWD
    /\ out = NoExec
    /\ thr = <<>> /\ sp = <<>>
    /\ RLRest

NextExec ==
    \/ \E req \in Requests, p \in Procs :
          LocalExecute(req, p) /\ UNCHANGED <<rlVars, sp, thr>>
    \/ \E h \in HTTPRequests, p \in Procs :
          CommandHandler(h, p) /\ UNCHANGED <<rlVars, sp, thr>>
    \/ ExecReturn /\ UNCHANGED <<rlVars, sp, thr>>

SpecExec == InitExec /\ [][NextExec]_vars

(***************************************************************************)
(* The forwarding executor: remoteExecutor.Execute (forwardCommand in      *)
(* main.go is the same code), called by processUpdate.                     *)
(***************************************************************************)
\* What comes back for the POST: an error of the transport, or an HTTP status
\* with a body that is the JSON of a CommandResponse or is not JSON.
NetError         == [kind |-> "neterr", status |-> 0, json |-> FALSE, resp |-> Reject("")]
Answered_(status, resp) == [kind |-> "http", status |-> status, json |-> TRUE, resp |-> resp]
Garbage(status)  == [kind |-> "http", status |-> status, json |-> FALSE, resp |-> Reject("")]

StatusInternalServerError == 500

\* fmt.Errorf("agent status %d", resp.StatusCode), for the statuses of the model
agentStatus(status) ==
    CASE status = StatusBadRequest -> "agent status 400"
      [] status = StatusUnauthorized -> "agent status 401"
      [] status = StatusForbidden -> "agent status 403"
      [] status = StatusInternalServerError -> "agent status 500"
      [] OTHER -> "agent status"

\* The request handed to client.Do: its headers; the body is the request of
\* the caller, marshalled.
Posted(hasAuth, auth) ==
    [made |-> TRUE, ContentType |-> "application/json", hasAuth |-> hasAuth, XAuthToken |-> auth]
NotPosted == [made |-> FALSE, ContentType |-> "", hasAuth |-> FALSE, XAuthToken |-> ""]

\* What Execute returns: (nil, err) or (&cr, nil), and the request it sent.
Forwarded(posted, hasResp, resp, err) ==
    [posted |-> posted, hasResp |-> hasResp, resp |-> resp, err |-> err]

\* Mutant of remoteExecutor.Execute: the body is parsed whatever the status.
remoteExecuteAnyStatus(forwardURL, authToken, a) ==
    LET posted == Posted(authToken # "", authToken)
    IN  IF forwardURL = ":" THEN Forwarded(NotPosted, FALSE, Reject(""), "missing protocol scheme")
        ELSE IF a.kind = "neterr" THEN Forwarded(posted, FALSE, Reject(""), "connection refused")
        ELSE IF ~a.json THEN Forwarded(posted, FALSE, Reject(""), "unexpected end of JSON input")
        ELSE Forwarded(posted, TRUE, a.resp, "")

\* remoteExecutor.Execute(ctx, req), the agent answering a; the URL ":" does
\* not parse.
remoteExecute(forwardURL, authToken, a) ==
    LET posted == Posted(authToken # "", authToken)
    IN  IF forwardURL = ":" THEN Forwarded(NotPosted, FALSE, Reject(""), "missing protocol scheme")
        ELSE IF a.kind = "neterr" THEN Forwarded(posted, FALSE, Reject(""), "connection refused")
        ELSE IF a.status # StatusOK THEN Forwarded(posted, FALSE, Reject(""), agentStatus(a.status))
        ELSE IF ~a.json THEN Forwarded(posted, FALSE, Reject(""), "unexpected end of JSON input")
        ELSE Forwarded(posted, TRUE, a.resp, "")

\* What the agent answers in the model.
AgentAnswers ==
    { NetError,
      Answered_(StatusOK, Response(TRUE, 0, <<"output">>, "")),
      Answered_(StatusOK, Response(FALSE, 2, <<>>, "exit status 2")),
      Garbage(StatusOK),
      Garbage(StatusInternalServerError),
      Garbage(StatusUnauthorized),
      Answered_(StatusForbidden, Reject("command blocked")),
      Answered_(StatusBadRequest, Reject("empty command")) }

\* The configurations of the broker in forward mode.
ForwardConfigs ==
    [ TelegramBotToken       : {"token"},
      TelegramAllowedUserIDs : { <<1>> },
      LLMEnabled             : BOOLEAN,
      LLMConfidenceThreshold : {ConfidenceThreshold},
      CommandAllowlist       : { <<W_ls, W_help>> },
      CommandBlocklist       : { <<W_rm>> },
      ForwardURL             : {"http://agent:8080/command", ":"},
      ForwardAuthToken       : {"", "secret"} ]

ForwardUpdates ==
    { NoMessage, Update(2, 1, W_ls), Update(1, 1, W_ls), Update(1, 1, <<"/", "L", "S", " ", "d">>),
      Update(1, 1, <<"r", "m", " ", "x">>) }

ForwardDecisions ==
    { Decision("llm returned no usable output", <<>>, <<>>, <<>>, <<>>, 0),
      Decision("", W_chat, W_ls, <<>>, <<"h", "i">>, 90),
      Decision("", W_command, W_ls, <<>>, <<>>, 90) }

NoForward == Forwarded(NotPosted, FALSE, Reject(""), "")

\* The observer of a forwarded update: what processUpdate did (res), and for
\* each call of the executor the agent's answer and what Execute returned.
ForwardedUpdate(upd, dec, r, a, fw) ==
    [handled |-> TRUE, upd |-> upd, dec |-> IF r.llm = 0 THEN NoDecision ELSE dec, res |-> r,
     calls |-> [i \in DOMAIN r.execs |-> [answer |-> a, ret |-> fw]]]

\* processUpdate on one update, with the forwarding executor as exec and the
\* agent answering a.
ForwardUpdate(upd, dec, a, net) ==
    /\ IF ~upd.hasMsg
       THEN /\ out' = ForwardedUpdate(upd, dec, Outcome(<<>>, <<>>, 0, <<>>, "skipped", stamp),
                                      a, NoForward)
            /\ UNCHANGED stamp
       ELSE /\ out' = ForwardedUpdate(upd, dec,
                         processUpdate(cfg, stamp, clock, rlMax, upd, dec,
                            [err  |-> remoteExecute(cfg.ForwardURL, cfg.ForwardAuthToken, a).err,
                             resp |-> remoteExecute(cfg.ForwardURL, cfg.ForwardAuthToken, a).resp],
                            net),
                         a, remoteExecute(cfg.ForwardURL, cfg.ForwardAuthToken, a))
            /\ stamp' = out'.res.stamp
    /\ UNCHANGED <<cfg, rlMax, clock, rlThr, rlLog>>

InitForward ==
    /\ cfg \in ForwardConfigs
    /\ rlMax \in {0, 1}
    /\ stamp = newRateLimiter
    /\ clock = 0
    /\ rlThr = [t \in Threads |-> RLIdle]
    /\ rlLog = NoLog
    /\ out = ForwardedUpdate(NoMessage, NoDecision,
                             Outcome(<<>>, <<>>, 0, <<>>, "skipped", newRateLimiter),
                             NetError, NoForward)
    /\ PathRest
    /\ CwdRest

NextForward ==
    \/ \E upd \in ForwardUpdates, a \in AgentAnswers, net \in BOOLEAN :
          \E dec \in (IF cfg.LLMEnabled THEN ForwardDecisions ELSE {NoDecision}) :
             ForwardUpdate(upd, dec, a, net) /\ UNCHANGED <<pathVars, cwdVars>>
    \/ Tick /\ UNCHANGED <<pathVars, cwdVars, pipeVars>>

SpecForward == InitForward /\ [][NextForward]_vars

(***************************************************************************)
(* Forward mode end to end: processUpdate of the broker, its forwarding    *)
(* executor, and the command handler of the agent answering the request.   *)
(* cfg holds the broker's configuration and, in the field Agent, the       *)
(* agent's.  The clock stands.                                             *)
(***************************************************************************)
W_uptime == <<"u", "p", "t", "i", "m", "e">>

RelayConfigs ==
    { [ TelegramBotToken       |-> "token",
        TelegramAllowedUserIDs |-> <<1>>,
        LLMEnabled             |-> llm,
        LLMConfidenceThreshold |-> ConfidenceThreshold,
        CommandAllowlist       |-> <<W_ls, W_status, W_uptime, W_help>>,
        CommandBlocklist       |-> <<W_rm>>,
        ForwardURL             |-> "http://agent:8080/command",
        ForwardAuthToken       |-> tok,
        Agent |-> [ BaseDir |-> Base, DynamicAllowlist |-> <<W_pwd>>,
                    CommandAllowlist |-> StaticCommands,
                    CommandBlocklist |-> blk, AuthToken |-> atok,
                    DefaultTimeoutSec |-> 10, MaxOutputKB |-> 2 ] ] :
        llm \in BOOLEAN, tok \in {"", "secret"}, atok \in {"", "secret"},
        blk \in { <<>>, <<W_Status>> } }

\* The texts "ls", "/Status", "uptime", "rm" and "  zip ".
RelayUpdates ==
    { NoMessage, Update(2, 1, W_ls) } \cup
    { Update(1, 1, t) : t \in { W_ls, <<"/", "S", "t", "a", "t", "u", "s">>, W_uptime, W_rm,
                                  <<" ", " ", "z", "i", "p", " ">> } }

RelayDecisions ==
    { Decision("", W_command, W_status, <<>>, <<>>, 90),
      Decision("", W_command, W_uptime, <<>>, <<>>, 90) }

\* What the forwarding executor gets back when the agent's command handler
\* has written w.
answerOf(w) ==
    [answer |-> [kind |-> "http", status |-> w.status, json |-> w.hasBody, resp |-> w.resp],
     store |-> w.store]

\* What the agent answers to the POST of the forwarding executor with the
\* request req, when it is reached: the status and the body its command
\* handler wrote, and the map of working directories it leaves.
agentAnswer(c, f, m, req, p, reach) ==
    IF reach
    THEN answerOf(commandHandler(c.Agent, f, m,
                                 [method |-> "POST", token |-> c.ForwardAuthToken,
                                  body |-> [kind |-> "json", req |-> req]], p))
    ELSE [answer |-> NetError, store |-> m]

\* The end of processUpdate when the executor was called: the agent answered
\* a and Execute returned fw.
RelayAnswered(upd, dec, net, a, fw) ==
    /\ out' = ForwardedUpdate(upd, dec,
                  processUpdate(cfg, stamp, clock, rlMax, upd, dec,
                                [err |-> fw.err, resp |-> fw.resp], net),
                  a.answer, fw)
    /\ stamp' = out'.res.stamp
    /\ byID' = a.store

\* The call of the executor: the agent answers a.
RelayExecute(upd, dec, net, a) ==
    RelayAnswered(upd, dec, net, a,
                  remoteExecute(cfg.ForwardURL, cfg.ForwardAuthToken, a.answer))

\* processUpdate up to the executor, r0, and the call of the executor when
\* it is reached.
RelayRouted(upd, dec, p, reach, net, r0) ==
    IF r0.execs = <<>>
    THEN /\ out' = ForwardedUpdate(upd, dec, r0, NetError, NoForward)
         /\ stamp' = r0.stamp
         /\ UNCHANGED byID
    ELSE RelayExecute(upd, dec, net, agentAnswer(cfg, fs, byID, r0.execs[1], p, reach))

\* processUpdate on one update, with the forwarding executor as exec and the
\* agent's command handler behind it.
RelayUpdate(upd, dec, p, reach, net) ==
    IF ~upd.hasMsg
    THEN /\ out' = ForwardedUpdate(upd, dec, Outcome(<<>>, <<>>, 0, <<>>, "skipped", stamp),
                                   NetError, NoForward)
         /\ UNCHANGED <<stamp, byID>>
    ELSE RelayRouted(upd, dec, p, reach, net,
                     processUpdate(cfg, stamp, clock, rlMax, upd, dec,
                                   [err |-> "", resp |-> Reject("")], net))

InitRelay ==
    /\ cfg \in RelayConfigs
    /\ rlMax \in {0, 1}
    /\ stamp = newRateLimiter
    /\ clock = 0
    /\ rlThr = [t \in Threads |-> RLIdle]
    /\ rlLog = NoLog
    /\ fs = WithLink(Tree, <<"base", "lnk">>, <<"etc">>)
    /\ byID = newChatCWD
    /\ out = ForwardedUpdate(NoMessage, NoDecision,
                             Outcome(<<>>, <<>>, 0, <<>>, "skipped", newRateLimiter),
                             NetError, NoForward)
    /\ thr = <<>> /\ sp = <<>>

NextRelay ==
    \/ \E upd \in RelayUpdates, p \in HandlerProcs, reach \in BOOLEAN, net \in BOOLEAN :
          \E dec \in (IF cfg.LLMEnabled THEN RelayDecisions ELSE {NoDecision}) :
             /\ RelayUpdate(upd, dec, p, reach, net)
             /\ UNCHANGED <<cfg, rlMax, clock, rlThr, rlLog, fs, sp, thr>>

SpecRelay == InitRelay /\ [][NextRelay]_vars

(***************************************************************************)
(* The pipeline in direct mode with two identities, of which the second is *)
(* authorized in one configuration and not in the other, and with the      *)
(* clock advancing.  Every message is delivered.                           *)
(***************************************************************************)
LimitConfigs ==
    [ TelegramBotToken       : {"token"},
      TelegramAllowedUserIDs : { <<1>>, <<1, 2>> },
      LLMEnabled             : {FALSE},
      LLMConfidenceThreshold : {ConfidenceThreshold},
      CommandAllowlist       : { <<W_ls, W_help>> },
      CommandBlocklist       : { <<W_rm>> } ]

\* The texts "ls", "  ", "/Help", "rm x" and "cat" from either identity.
LimitUpdates ==
    { NoMessage } \cup
    { Update(u, u, t) : u \in Users,
                        t \in { W_ls, <<" ", " ">>, <<"/", "H", "e", "l", "p">>,
                                <<"r", "m", " ", "x">>, W_cat } }

InitLimit ==
    /\ cfg \in LimitConfigs
    /\ rlMax \in {0, 1, 2}
    /\ stamp = newRateLimiter
    /\ clock = 0
    /\ rlThr = [t \in Threads |-> RLIdle]
    /\ rlLog = NoLog
    /\ out = NoUpdate
    /\ PathRest
    /\ CwdRest

NextLimit ==
    \/ \E upd \in LimitUpdates, ex \in ExecResults :
          ProcessUpdate(upd, NoDecision, ex, TRUE) /\ UNCHANGED <<pathVars, cwdVars>>
    \/ Tick /\ UNCHANGED <<pathVars, cwdVars, pipeVars>>

SpecLimit == InitLimit /\ [][NextLimit]_vars

(***************************************************************************)
(* Polling mode: pollLoop (main.go).  One goroutine, whose position and    *)
(* locals are in thr: the offset, the batch getUpdates returned, the index *)
(* of the update the loop is at, the number of getUpdates calls, and the   *)
(* ids of the updates whose processUpdate has returned.                    *)
(***************************************************************************)
MaxPolls    == 3    \* getUpdates calls in one behaviour
MaxUpdateID == 3    \* update ids are 1..MaxUpdateID

TelegramUpdate(id, upd) == [UpdateID |-> id, upd |-> upd]

\* Mutant of nextOffset: the offset follows every update.
nextOffsetUnguarded(offset, id) == id + 1

\* pollLoop: if upd.UpdateID >= offset { offset = upd.UpdateID + 1 }
nextOffset(offset, id) == IF id >= offset THEN id + 1 ELSE offset

Polling(pc, offset, updates, i, polls, done) ==
    [pc |-> pc, offset |-> offset, updates |-> updates, i |-> i, polls |-> polls, done |-> done]

PollUpdates == {NoMessage, Update(2, 1, W_ls), Update(1, 1, W_ls)}

\* What getUpdates returns in the model: up to two updates with different
\* ids, in any order.
Batches ==
    LET one == {TelegramUpdate(id, u) : id \in 1..MaxUpdateID, u \in PollUpdates}
    IN  { <<>> } \cup { <<a>> : a \in one }
            \cup { q \in { <<a, b>> : a \in one, b \in one } : q[1].UpdateID # q[2].UpdateID }

PollConfigs == {c \in Configs : c.TelegramBotToken = "token" /\ c.CommandAllowlist = <<W_ls, W_help>>
                                /\ c.CommandBlocklist = <<>>}

\* pollLoop: getUpdates fails; the loop sleeps and polls again.
GetUpdatesError ==
    /\ thr.pc = "poll" /\ thr.polls < MaxPolls
    /\ thr' = [thr EXCEPT !.polls = @ + 1]
    /\ UNCHANGED <<cfg, out, rlVars>>

\* pollLoop: getUpdates returns a batch; with an empty one the loop sleeps
\* and polls again.
GetUpdates(batch) ==
    /\ thr.pc = "poll" /\ thr.polls < MaxPolls
    /\ thr' = [thr EXCEPT !.polls = @ + 1, !.updates = batch,
                          !.i = IF batch = <<>> THEN 0 ELSE 1,
                          !.pc = IF batch = <<>> THEN "poll" ELSE "process"]
    /\ UNCHANGED <<cfg, out, rlVars>>

\* pollLoop: one turn of the loop over the batch, processUpdate and the
\* offset.
PollProcess(dec, ex, net) ==
    /\ thr.pc = "process"
    /\ ProcessUpdate(thr.updates[thr.i].upd, dec, ex, net)
    /\ thr' = [thr EXCEPT !.offset = nextOffset(@, thr.updates[thr.i].UpdateID),
                          !.done = @ \cup {thr.updates[thr.i].UpdateID},
                          !.i = IF thr.i = Len(thr.updates) THEN 0 ELSE thr.i + 1,
                          !.pc = IF thr.i = Len(thr.updates) THEN "poll" ELSE "process"]

InitPoll ==
    /\ cfg \in PollConfigs
    /\ rlMax \in {0, 1}
    /\ stamp = newRateLimiter
    /\ clock = 0
    /\ rlThr = [t \in Threads |-> RLIdle]
    /\ rlLog = NoLog
    /\ out = NoUpdate
    /\ thr = Polling("poll", 0, <<>>, 0, 0, {})
    /\ byID = <<>>
    /\ PathRest

NextPoll ==
    \/ GetUpdatesError /\ UNCHANGED <<pathVars, byID>>
    \/ \E batch \in Batches : GetUpdates(batch) /\ UNCHANGED <<pathVars, byID>>
    \/ \E ex \in ExecResults, net \in BOOLEAN :
          \E dec \in (IF cfg.LLMEnabled THEN ForwardDecisions ELSE {NoDecision}) :
             PollProcess(dec, ex, net) /\ UNCHANGED <<pathVars, byID>>

SpecPoll == InitPoll /\ [][NextPoll]_vars

(***************************************************************************)
(* The dynamic commands touch, mkdir and count, as the catalog of the      *)
(* dispatcher describes them: each takes its path through sanitizePath     *)
(* from the directory of the chat.                                         *)
(***************************************************************************)
\* What a handler that writes returns: the response and the filesystem.
Wrote(resp, f) == [resp |-> resp, fs |-> f]

\* os.MkdirAll from the directory done: every missing component of rest is
\* created, a symlink to a directory is followed, a file in the way fails.
RECURSIVE MkdirAll(_, _, _)
MkdirAll(f, done, rest) ==
    IF rest = <<>> THEN [ok |-> TRUE, fs |-> f]
    ELSE LET next == Append(done, Head(rest))
             real == EvalSymlinks(f, next)
         IN  IF next \notin DOMAIN f
             THEN MkdirAll((next :> Dir) @@ f, next, Tail(rest))
             ELSE IF real.ok /\ f[real.path].kind = "dir"
                  THEN MkdirAll(f, real.path, Tail(rest))
                  ELSE [ok |-> FALSE, fs |-> f]

\* mkdir: exactly one path, created with its missing parents.
runSafeMkdir(f, baseAbs, cwdAbs, args) ==
    IF Len(args) # 1 THEN Wrote(Reject("mkdir requires a single path"), f)
    ELSE LET r == sanitizePath(f, baseAbs, cwdAbs, args[1])
         IN  IF ~r.ok THEN Wrote(Reject(r.err), f)
             ELSE IF ~MkdirAll(f, <<>>, r.path).ok THEN Wrote(Reject("not a directory"), f)
             ELSE Wrote(Response(TRUE, 0, <<>>, ""), MkdirAll(f, <<>>, r.path).fs)

\* touch: exactly one path; the file is created when nothing is there, and
\* what is there is left as it is.
runSafeTouch(f, baseAbs, cwdAbs, args) ==
    IF Len(args) # 1 THEN Wrote(Reject("touch requires a single path"), f)
    ELSE LET r   == sanitizePath(f, baseAbs, cwdAbs, args[1])
             par == EvalSymlinks(f, Front(r.path))
         IN  IF ~r.ok THEN Wrote(Reject(r.err), f)
             ELSE IF Lstat(f, r.path).ok THEN Wrote(Response(TRUE, 0, <<>>, ""), f)
             ELSE IF r.path = <<>> \/ ~par.ok \/ f[par.path].kind # "dir"
             THEN Wrote(Reject("no such file or directory"), f)
             ELSE Wrote(Response(TRUE, 0, <<>>, ""),
                        (Append(par.path, Last(r.path)) :> File) @@ f)

\* The entries directly inside the directory dir.
Entries(f, dir) == { q \in DOMAIN f : Len(q) = Len(dir) + 1 /\ Front(q) = dir }

\* Mutant of runSafeCount: every entry of the directory is counted.
runSafeCountAllEntries(f, baseAbs, cwdAbs, args) ==
    IF Len(args) > 1 THEN Reject("count accepts at most one path")
    ELSE LET r    == IF args = <<>> THEN Accepted(cwdAbs)
                     ELSE sanitizePath(f, baseAbs, cwdAbs, args[1])
             real == EvalSymlinks(f, r.path)
         IN  IF ~r.ok THEN Reject(r.err)
             ELSE IF ~real.ok THEN Reject("no such file or directory")
             ELSE IF f[real.path].kind # "dir" THEN Response(TRUE, 0, <<1>>, "")
             ELSE Response(TRUE, 0, <<Cardinality(Entries(f, real.path))>>, "")

\* count: no path (the directory of the chat) or one; 1 for a file, for a
\* directory the number of the regular files directly inside it.  The
\* output is the number and a newline.
runSafeCount(f, baseAbs, cwdAbs, args) ==
    IF Len(args) > 1 THEN Reject("count accepts at most one path")
    ELSE LET r    == IF args = <<>> THEN Accepted(cwdAbs)
                     ELSE sanitizePath(f, baseAbs, cwdAbs, args[1])
             real == EvalSymlinks(f, r.path)
         IN  IF ~r.ok THEN Reject(r.err)
             ELSE IF ~real.ok THEN Reject("no such file or directory")
             ELSE IF f[real.path].kind # "dir" THEN Response(TRUE, 0, <<1>>, "")
             ELSE Response(TRUE, 0,
                           <<Cardinality({q \in Entries(f, real.path) : f[q].kind = "file"})>>, "")

\* ping: the longest host name accepted.
PingMaxHostLen == 253

Digits == <<"0", "1", "2", "3", "4", "5", "6", "7", "8", "9">>

InSeq(x, q) == \E i \in DOMAIN q : q[i] = x

IsHostChar(ch) ==
    InSeq(ch, LowerLetters) \/ InSeq(ch, UpperLetters) \/ InSeq(ch, Digits) \/ ch \in {".", "-"}

\* Mutant of validHost: the characters are not looked at.
validHostAnyChar(h) ==
    /\ h # <<>>
    /\ Len(h) <= PingMaxHostLen
    /\ Head(h) \notin {".", "-"} /\ Last(h) \notin {".", "-"}

\* The host of ping is valid: letters, digits, "." and "-" only, neither
\* the first nor the last character "." or "-", at most 253 characters.
validHost(h) ==
    /\ h # <<>>
    /\ Len(h) <= PingMaxHostLen
    /\ \A i \in DOMAIN h : IsHostChar(h[i])
    /\ Head(h) \notin {".", "-"} /\ Last(h) \notin {".", "-"}

\* ping: exactly one host, validated before the probe is spawned with its
\* fixed flags, 4 echoes and 2 seconds for each.
runSafePing(baseAbs, args, timeoutSec, maxKB, p) ==
    IF Len(args) # 1 THEN Reject("ping requires a single host")
    ELSE IF ~validHost(args[1]) THEN Reject("invalid host")
    ELSE runCommand(baseAbs, "ping", << <<"-c">>, <<"4">>, <<"-W">>, <<"2">>, args[1] >>,
                    timeoutSec, maxKB, p)

\* The filesystem the file commands start on: /base/lnk points at
\* /base/docs, which holds a file and a directory.
FilesTree ==
    (<<"base", "docs", "sub">> :> Dir) @@ WithLink(Tree, <<"base", "lnk">>, <<"base", "docs">>)

\* The arguments of touch, mkdir and count in the model.
FileArgs ==
    { <<>>, <<Rel_(<<"f">>), Rel_(<<"Movies">>)>>, <<Rel_(<<"..", "etc">>)>> }
    \cup { <<Rel_(q)>> : q \in { <<"Movies">>, <<"Movies", "a.mp4">>, <<"Movies", "b.mp4">>,
                                 <<"Movies", "Clips">>, <<"Movies", "Clips", "c.mp4">>,
                                 <<"f">>, <<"docs">>, <<"lnk">>, <<"nope", "x">> } }

\* The hosts of the model: "bad host", "example.com", "Host-1", "-a.com",
\* "a.com.", ".a", "a_b", "", and names of 253 and of 254 letters.
Hosts ==
    { <<"b", "a", "d", " ", "h", "o", "s", "t">>,
      <<"e", "x", "a", "m", "p", "l", "e", ".", "c", "o", "m">>,
      <<"H", "o", "s", "t", "-", "1">>,
      <<"-", "a", ".", "c", "o", "m">>,
      <<"a", ".", "c", "o", "m", ".">>,
      <<".", "a">>,
      <<"a", "_", "b">>,
      <<>>,
      [i \in 1..PingMaxHostLen |-> "a"],
      [i \in 1..(PingMaxHostLen + 1) |-> "a"] }

PingArgs == { <<>> } \cup { <<h>> : h \in Hosts } \cup { << <<"a">>, <<"b">> >> }

\* handleDynamicCommand, case "mkdir"
Mkdir(c, args) ==
    /\ out' = Did("mkdir", c, args, runSafeMkdir(fs, Base, storeGet(byID, c, Base), args).resp)
    /\ fs' = runSafeMkdir(fs, Base, storeGet(byID, c, Base), args).fs
    /\ byID' = storeGot(byID, c, Base)
    /\ UNCHANGED <<cfg, thr>>

\* handleDynamicCommand, case "touch"
Touch(c, args) ==
    /\ out' = Did("touch", c, args, runSafeTouch(fs, Base, storeGet(byID, c, Base), args).resp)
    /\ fs' = runSafeTouch(fs, Base, storeGet(byID, c, Base), args).fs
    /\ byID' = storeGot(byID, c, Base)
    /\ UNCHANGED <<cfg, thr>>

\* handleDynamicCommand, case "count"
Count(c, args) ==
    /\ out' = Did("count", c, args, runSafeCount(fs, Base, storeGet(byID, c, Base), args))
    /\ byID' = storeGot(byID, c, Base)
    /\ UNCHANGED <<fs, cfg, thr>>

\* handleDynamicCommand, case "ping"
Ping(c, args, p) ==
    /\ out' = Did("ping", c, args,
                  runSafePing(Base, args, LocalDefaultTimeoutSec, LocalMaxOutputKB, p))
    /\ byID' = storeGot(byID, c, Base)
    /\ UNCHANGED <<fs, cfg, thr>>

InitFiles ==
    /\ fs = FilesTree
    /\ cfg = [LocalBaseDir |-> Base]
    /\ byID = newChatCWD
    /\ thr = [t \in Threads |-> ThrIdle]
    /\ out = NoStep
    /\ sp = <<>>
    /\ RLRest

NextFiles ==
    \/ \E c \in Chats, args \in FileArgs : Mkdir(c, args) /\ UNCHANGED <<rlVars, sp>>
    \/ \E c \in Chats, args \in FileArgs : Touch(c, args) /\ UNCHANGED <<rlVars, sp>>
    \/ \E c \in Chats, args \in FileArgs : Count(c, args) /\ UNCHANGED <<rlVars, sp>>
    \/ \E c \in Chats, args \in PingArgs, p \in HandlerProcs :
          Ping(c, args, p) /\ UNCHANGED <<rlVars, sp>>

SpecFiles == InitFiles /\ [][NextFiles]_vars

(***************************************************************************)
(* The dynamic command find, as the catalog of the dispatcher describes    *)
(* it: a walk of the directories below the directory of the chat.          *)
(***************************************************************************)
\* find: the deepest level below the starting directory that is searched,
\* and the most matches that are returned.
FindMaxDepth   == 7
FindMaxResults == 200

\* The names of the model in the order of a directory walk, and their
\* letters.
NameOrder == <<"base", "d0", "d1", "d2", "d3", "d4", "d5", "d6", "dfile">>

Spell(name) ==
    CASE name = "base"  -> <<"b", "a", "s", "e">>
      [] name = "dfile" -> <<"d", "f", "i", "l", "e">>
      [] name = "d0" -> <<"d", "0">>
      [] name = "d1" -> <<"d", "1">> [] name = "d2" -> <<"d", "2">>
      [] name = "d3" -> <<"d", "3">> [] name = "d4" -> <<"d", "4">>
      [] name = "d5" -> <<"d", "5">> [] name = "d6" -> <<"d", "6">>
      [] OTHER -> <<>>

\* strings.Contains(s, sub)
Contains(s, sub) ==
    \E i \in 0..(Len(s) - Len(sub)) : SubSeq(s, i + 1, i + Len(sub)) = sub

\* The name of the directory contains the fragment, letter case ignored.
nameMatches(dir, frag) ==
    dir # <<>> /\ Contains(ToLower(Spell(Last(dir))), ToLower(frag))

\* The directories directly inside dir, in the order of the walk.
subdirs(f, dir) ==
    LET names == SelectSeq(NameOrder,
                           LAMBDA n : Append(dir, n) \in DOMAIN f /\ f[Append(dir, n)].kind = "dir")
    IN  [i \in DOMAIN names |-> Append(dir, names[i])]

\* What the walk has done so far: the matches, and the directories visited.
Found(matches, visited) == [matches |-> matches, visited |-> visited]

\* The walk visits the directory dir.
visit(acc, dir, frag) ==
    Found(IF nameMatches(dir, frag) THEN Append(acc.matches, dir) ELSE acc.matches,
          Append(acc.visited, dir))

\* Mutant of findWalk: no bound on the depth.
RECURSIVE findWalkNoDepthBound(_, _, _, _, _)
findWalkNoDepthBound(f, frag, dirs, depth, acc) ==
    IF dirs = <<>> THEN acc
    ELSE IF Len(acc.matches) >= FindMaxResults
    THEN findWalkNoDepthBound(f, frag, Tail(dirs), depth, acc)
    ELSE findWalkNoDepthBound(f, frag, Tail(dirs), depth,
             findWalkNoDepthBound(f, frag, subdirs(f, Head(dirs)), depth + 1,
                                  visit(acc, Head(dirs), frag)))

\* The walk of find over dirs, directories of one parent at the level depth
\* below the starting directory, in order: each is visited and then what is
\* inside it.  A directory below the deepest level, or met when the matches
\* are full, is skipped with all that is inside it; the walk goes on.
RECURSIVE findWalk(_, _, _, _, _)
findWalk(f, frag, dirs, depth, acc) ==
    IF dirs = <<>> THEN acc
    ELSE IF depth > FindMaxDepth \/ Len(acc.matches) >= FindMaxResults
    THEN findWalk(f, frag, Tail(dirs), depth, acc)
    ELSE findWalk(f, frag, Tail(dirs), depth,
             findWalk(f, frag, subdirs(f, Head(dirs)), depth + 1,
                      visit(acc, Head(dirs), frag)))

\* What find returns: the response, and the directories the walk visited.
Searched(resp, visited) == [resp |-> resp, visited |-> visited]

foundResponse(w) == Searched(Response(TRUE, 0, w.matches, ""), w.visited)

\* find: exactly one name fragment, not empty; the matches are the output,
\* one on a line.
runSafeFind(f, cwdAbs, args) ==
    IF Len(args) # 1 THEN Searched(Reject("find requires a single name"), <<>>)
    ELSE IF TrimSpace(args[1]) = <<>> THEN Searched(Reject("empty name"), <<>>)
    ELSE foundResponse(findWalk(f, TrimSpace(args[1]), <<cwdAbs>>, 0, Found(<<>>, <<>>)))

\* The tree of the model of find: below /base the directories d1..d6, three
\* levels of them (258 directories), a chain d0/d0/... of nine directories,
\* and a file with a "d" in its name.
WideNames == {"d1", "d2", "d3", "d4", "d5", "d6"}
WideDirs ==
    { Base \o q : q \in UNION { [1..k -> WideNames] : k \in 1..3 } }
ChainDirs == { Base \o [i \in 1..k |-> "d0"] : k \in 1..9 }

FindTree ==
    ((Base \o <<"d1", "dfile">>) :> File)
    @@ [q \in WideDirs \cup ChainDirs \cup {<<>>, Base} |-> Dir]

\* The fragments of the model: "D", "0", " d1 ", "x" and " ".
FindArgs ==
    { <<>>, << <<"D">> >>, << <<"0">> >>, << <<" ", "d", "1", " ">> >>, << <<"x">> >>,
      << <<" ">> >>, << <<"d">>, <<"0">> >> }

FindCdArgs == { <<>>, <<Rel_(<<"d0">>)>>, <<Rel_(<<"d1">>)>> }

NoFind == [step |-> "none", chat |-> 0, args |-> <<>>, resp |-> Reject(""), before |-> Unset,
           visited |-> <<>>]

\* handleDynamicCommand, case "find"
Find(c, args) ==
    /\ out' = [step |-> "find", chat |-> c, args |-> args,
               resp |-> runSafeFind(fs, storeGet(byID, c, Base), args).resp,
               before |-> storeGet(byID, c, Base),
               visited |-> runSafeFind(fs, storeGet(byID, c, Base), args).visited]
    /\ byID' = storeGot(byID, c, Base)
    /\ UNCHANGED <<fs, cfg, thr>>

\* handleDynamicCommand, case "cd"
FindCd(c, args) ==
    /\ out' = [step |-> "cd", chat |-> c, args |-> args,
               resp |-> cdStored(runSafeCd(fs, Base, byID, c, args), c).resp,
               before |-> storeGet(byID, c, Base), visited |-> <<>>]
    /\ byID' = cdStored(runSafeCd(fs, Base, byID, c, args), c).store
    /\ UNCHANGED <<fs, cfg, thr>>

InitFind ==
    /\ fs = FindTree
    /\ cfg = [LocalBaseDir |-> Base]
    /\ byID = newChatCWD
    /\ thr = [t \in Threads |-> ThrIdle]
    /\ out = NoFind
    /\ sp = <<>>
    /\ RLRest

NextFind ==
    \/ \E c \in Chats, args \in FindArgs : Find(c, args) /\ UNCHANGED <<rlVars, sp>>
    \/ \E c \in Chats, args \in FindCdArgs : FindCd(c, args) /\ UNCHANGED <<rlVars, sp>>

SpecFind == InitFind /\ [][NextFind]_vars

(***************************************************************************)
(* Claims about the pipeline.                                              *)
(***************************************************************************)
\* The last update carried a message and processUpdate has returned.
Handled == out.handled /\ out.upd.hasMsg

\* The sender of the last update is in the configured list of users.
Authorized == out.upd.user \in Range(cfg.TelegramAllowedUserIDs)

\* A name is in a list, letter case ignored.
InList(name, list) == \E i \in DOMAIN list : ToLower(list[i]) = ToLower(name)

\* The stages an update passes on its way to the executor, in order.
StageOrder == <<"auth", "rate", "route", "blocklist", "allowlist", "exec">>

IsPrefix(s, t) == Len(s) <= Len(t) /\ SubSeq(t, 1, Len(s)) = s

\* C1: the executor is called for an update only when the sender is
\* authorized, the rate limiter admitted the update, and the command is not in
\* the blocklist and is in the allowlist; the stages are entered in this order
\* and the pipeline stops at the first that fails, in both routing modes.
C1_ExecutorBehindGates ==
    Handled =>
        /\ IsPrefix(out.res.stages, StageOrder)
        /\ Len(out.res.execs) <= 1
        /\ out.res.execs # <<>> =>
              /\ Authorized
              /\ out.res.rl = "allowed"
              /\ ~InList(out.res.execs[1].Command, cfg.CommandBlocklist)
              /\ InList(out.res.execs[1].Command, cfg.CommandAllowlist)
              /\ out.res.stages = StageOrder
        /\ ~Authorized =>
              /\ out.res.stages = <<"auth">>
              /\ out.res.rl = "skipped" /\ out.res.llm = 0 /\ out.res.execs = <<>>
        /\ out.res.rl = "rejected" =>
              /\ out.res.stages = <<"auth", "rate">>
              /\ out.res.llm = 0 /\ out.res.execs = <<>>
        /\ out.res.execs = <<>> => out.res.stages # StageOrder

\* An authorized, admitted update was routed by the classifier to "ls", which
\* is allowlisted and not blocked although a blocklist is configured, and the
\* executor was called once.
C1_Witness ==
    /\ Handled /\ Authorized /\ out.res.rl = "allowed"
    /\ Len(out.res.execs) = 1
    /\ out.res.execs[1].Command = W_ls
    /\ cfg.LLMEnabled /\ out.res.llm = 1
    /\ cfg.CommandBlocklist # <<>>

\* C2: an update from a user who is not in the configured list gets exactly
\* one reply, "Unauthorized user.", and the executor is not called.
C2_UnauthorizedRejected ==
    (Handled /\ ~Authorized) =>
        /\ Len(out.res.sends) = 1
        /\ out.res.sends[1].text = "Unauthorized user."
        /\ out.res.sends[1].chat = out.upd.chat
        /\ out.res.execs = <<>>

\* User 2, who is not configured, sent "ls" and was answered.
C2_Witness ==
    /\ Handled /\ out.upd.user = 2 /\ ~Authorized
    /\ Len(out.res.sends) = 1 /\ out.res.sends[1].delivered

\* The command name the routing of the last update produced: the first word
\* of the text in direct mode, the classifier's intent otherwise (none when the
\* classifier failed or answered with a chat reply).
Routed ==
    IF cfg.LLMEnabled
    THEN IF out.dec.err # "" \/ ToLower(out.dec.Type) = W_chat THEN <<>>
         ELSE ToLower(TrimSpace(out.dec.Intent))
    ELSE normalizeCommand(out.upd.text).cmd

\* The last update was authorized and admitted, and was routed to a command
\* name that is in the allowlist and in the blocklist.
RoutedToListedAndBlocked ==
    /\ Handled /\ Authorized /\ out.res.rl = "allowed"
    /\ Routed # <<>>
    /\ InList(Routed, cfg.CommandAllowlist)
    /\ InList(Routed, cfg.CommandBlocklist)

BlockedReply == Len(out.res.sends) = 1 /\ out.res.sends[1].text = "Command blocked."

\* C3 as stated: a command name that is in the allowlist and in the blocklist
\* is always answered with the blocked reply and never given to the executor.
C3_BlockedAlwaysAnswered ==
    RoutedToListedAndBlocked => (BlockedReply /\ out.res.execs = <<>>)

\* C3, amended: a command name that is in the allowlist and in the blocklist
\* is never given to the executor; it is answered with the blocked reply
\* unless the name is help or, in classifier mode, the confidence is under the
\* threshold.
C3_BlockedWinsOverAllowed ==
    RoutedToListedAndBlocked =>
        /\ out.res.execs = <<>>
        /\ ( /\ Routed # W_help
             /\ (cfg.LLMEnabled => out.dec.Confidence >= cfg.LLMConfidenceThreshold) )
           => BlockedReply

\* The classifier answered " LS " while the allowlist has "LS" and the
\* blocklist "Ls": the reply is "Command blocked." and nothing was executed.
C3_Witness ==
    /\ RoutedToListedAndBlocked /\ cfg.LLMEnabled
    /\ Routed = W_ls
    /\ cfg.CommandBlocklist = <<W_Ls>>
    /\ BlockedReply /\ out.res.execs = <<>>

\* The last update passed authorization and the rate limiter.
Admitted == Handled /\ Authorized /\ out.res.rl = "allowed"

\* C16: for an update with a message, whatever stage ends the pipeline, it
\* makes exactly one call of sendTelegramMessage, to the chat of the message.
C16_ExactlyOneReply ==
    Handled => (Len(out.res.sends) = 1 /\ out.res.sends[1].chat = out.upd.chat)

\* The executor returned an error and the error was reported, once.
C16_Witness ==
    /\ Handled /\ Len(out.res.execs) = 1
    /\ Len(out.res.sends) = 1 /\ out.res.sends[1].text = "Agent error: "

HelpReply ==
    /\ Len(out.res.sends) = 1
    /\ out.res.sends[1].text = "Allowed commands: "
    /\ out.res.sends[1].data = cfg.CommandAllowlist

\* C17 as stated: a routed command name of help is answered with the allowlist
\* and without the executor, in direct mode and, whatever the confidence, in
\* classifier mode.
C17_HelpWhateverConfidence ==
    (Admitted /\ Routed = W_help) => (HelpReply /\ out.res.execs = <<>>)

\* C17, amended: a routed command name of help is answered with the allowlist
\* and without the executor, in direct mode and, when the confidence is not
\* under the threshold, in classifier mode.
C17_HelpShortCircuit ==
    ( /\ Admitted /\ Routed = W_help
      /\ cfg.LLMEnabled => out.dec.Confidence >= cfg.LLMConfidenceThreshold )
    => (HelpReply /\ out.res.execs = <<>>)

\* The classifier answered the intent "HELP" with confidence 90 while help is
\* in the allowlist and in the blocklist: the allowlist was sent.
C17_Witness ==
    /\ Admitted /\ cfg.LLMEnabled /\ Routed = W_help
    /\ InList(W_help, cfg.CommandAllowlist) /\ InList(W_help, cfg.CommandBlocklist)
    /\ HelpReply /\ out.res.execs = <<>>

Blank(str) == \A i \in DOMAIN str : IsSpace(str[i])

\* The classifier answered the last update with a decision of type chat.
ChatDecision ==
    /\ Admitted /\ cfg.LLMEnabled
    /\ out.dec.err = "" /\ ToLower(out.dec.Type) = W_chat

\* C18: a decision of type chat is answered with one reply, the response of
\* the decision or the fallback text when that is blank; the classifier was
\* called once and the executor not at all.
C18_ChatDecisionTerminal ==
    ChatDecision =>
        /\ Len(out.res.sends) = 1
        /\ IF Blank(out.dec.Response)
           THEN out.res.sends[1].text = "I didn't understand that. Try a command or ask again."
           ELSE out.res.sends[1].text = "" /\ out.res.sends[1].data = <<out.dec.Response>>
        /\ out.res.llm = 1
        /\ out.res.execs = <<>>

\* A decision of type "Chat" with the intent "rm", confidence 90 and the
\* response " " was answered with the fallback text.
C18_Witness ==
    /\ ChatDecision /\ out.dec.Type = W_Chat /\ out.dec.Intent = W_rm
    /\ out.dec.Response = <<" ">>
    /\ out.res.sends[1].text = "I didn't understand that. Try a command or ask again."

NotConfidentReply ==
    /\ Len(out.res.sends) = 1
    /\ out.res.sends[1].text =
          "I am not confident this is a command. Please rephrase or use a direct command."

\* C19: in classifier mode a command decision with a confidence under the
\* threshold is answered with the request to rephrase, and neither the policy
\* check nor the executor runs; a confidence equal to the threshold is not
\* rejected.
C19_LowConfidenceTerminal ==
    (Admitted /\ cfg.LLMEnabled /\ Routed # <<>>) =>
        /\ out.dec.Confidence < cfg.LLMConfidenceThreshold =>
              /\ NotConfidentReply
              /\ out.res.stages = <<"auth", "rate", "route">>
              /\ out.res.execs = <<>>
        /\ out.dec.Confidence = cfg.LLMConfidenceThreshold => ~NotConfidentReply

\* A decision for "ls" with a confidence of exactly the threshold was executed.
C19_Witness ==
    /\ Admitted /\ cfg.LLMEnabled /\ Routed = W_ls
    /\ out.dec.Confidence = cfg.LLMConfidenceThreshold
    /\ Len(out.res.execs) = 1

\* The positions of a text where a whitespace-separated token starts.
TokenStarts(s) ==
    { i \in DOMAIN s : ~IsSpace(s[i]) /\ (i = 1 \/ IsSpace(s[i - 1])) }

\* The n-th token of a text: from its start to the last character before the
\* next white space.
TokenAt(s, n) ==
    LET from == CHOOSE i \in TokenStarts(s) :
                    Cardinality({k \in TokenStarts(s) : k < i}) = n - 1
        to   == CHOOSE j \in from..Len(s) :
                    /\ \A k \in from..j : ~IsSpace(s[k])
                    /\ (j = Len(s) \/ IsSpace(s[j + 1]))
    IN  SubSeq(s, from, to)

TokenCount(s) == Cardinality(TokenStarts(s))

\* The last update was admitted and is parsed directly.
DirectParsed == Admitted /\ ~cfg.LLMEnabled

\* C27: in direct-parse mode the command name is the first white-space
\* separated token of the message without its leading "/" and in lower case,
\* and the arguments are the remaining tokens, in order and unchanged: that is
\* what normalizeCommand returns and what the executor is called with; a
\* message without a token gets the one reply "Empty command." and reaches
\* neither the policy checks nor the executor.
C27_DirectParse ==
    DirectParsed =>
        LET text == out.upd.text
            norm == normalizeCommand(text)
        IN  /\ TokenCount(text) > 0 =>
                  /\ norm.cmd = ToLower(TrimSlash(TokenAt(text, 1)))
                  /\ Len(norm.args) = TokenCount(text) - 1
                  /\ \A n \in 1..(TokenCount(text) - 1) : norm.args[n] = TokenAt(text, n + 1)
            /\ \A i \in DOMAIN out.res.execs :
                  /\ TokenCount(text) > 0
                  /\ out.res.execs[i].Command = ToLower(TrimSlash(TokenAt(text, 1)))
                  /\ Len(out.res.execs[i].Args) = TokenCount(text) - 1
                  /\ \A n \in 1..(TokenCount(text) - 1) :
                        out.res.execs[i].Args[n] = TokenAt(text, n + 1)
            /\ TokenCount(text) = 0 =>
                  /\ Len(out.res.sends) = 1
                  /\ out.res.sends[1].text = "Empty command."
                  /\ out.res.stages = <<"auth", "rate", "route">>
                  /\ out.res.execs = <<>>

\* The executor was called for "/LS  -a<tab>Docs ": the command is "ls" and
\* the arguments are "-a" and "Docs".
C27_Witness ==
    /\ DirectParsed
    /\ TokenCount(out.upd.text) = 3
    /\ Len(out.res.execs) = 1
    /\ out.res.execs[1].Command = W_ls
    /\ out.res.execs[1].Args = << <<"-", "a">>, <<"D", "o", "c", "s">> >>

(***************************************************************************)
(* Claims about the working directory of a chat.                           *)
(***************************************************************************)
\* C6: the working directory stored for a chat is always the base directory
\* or a path below it, and a step changes it only when it is a step of the cd
\* handler on that chat, or the first access of the chat, which stores the
\* base directory.
C6_WorkingDirInsideBase ==
    /\ [](\A c \in Chats : byID[c] # Unset => InsideBase(byID[c]))
    /\ [][\A c \in Chats :
            byID'[c] # byID[c] =>
                \/ byID[c] = Unset /\ byID'[c] = Base
                \/ out'.step \in {"cd", "cd_set"} /\ out'.chat = c]_vars

\* Chat 1 is in /base/docs, chat 2 was initialised to the base, and a cd of
\* chat 1 to another directory has been validated and waits for the lock.
C6_Witness ==
    /\ byID[1] = <<"base", "docs">>
    /\ byID[2] = Base
    /\ \E t \in Threads : /\ thr[t].pc = "cd_set" /\ thr[t].chat = 1
                          /\ thr[t].target = <<"base", "lnk">>

\* The argument of the cd that ran last, cleaned against the directory the
\* chat was in.
CdTarget ==
    IF out.args[1].abs THEN Clean(out.args[1].segs) ELSE Join(out.before, out.args[1].segs)

\* C7: with a base directory configured, cd without arguments answers ok and
\* leaves the base directory stored; cd <dir> answers ok=false, exit 1 when
\* path resolution rejects the argument or the target does not exist or is no
\* directory; and after every cd that answers ok=false (more than one
\* argument included) the chat's working directory is what it was before.
C7_CdResetAndFailure ==
    BaseConfigured =>
        /\ (out.step = "cd" /\ out.args = <<>>)
               => (out.resp.ok /\ out.resp.exit = 0 /\ byID[out.chat] = Base)
        /\ (/\ out.step \in {"cd", "cd_get"} /\ Len(out.args) = 1
            /\ \/ ~sanitizePath(fs, Base, out.before, out.args[1]).ok
               \/ ~Denoted(CdTarget).ok
               \/ fs[Denoted(CdTarget).path].kind # "dir")
               => (out.step = "cd" /\ ~out.resp.ok /\ out.resp.exit = 1)
        /\ (out.step = "cd" /\ Len(out.args) > 1) => (~out.resp.ok /\ out.resp.exit = 1)
        /\ (out.step = "cd" /\ ~out.resp.ok) => storeGet(byID, out.chat, Base) = out.before

\* A chat in /base/docs did "cd f", and /base/docs/f does not exist: the cd
\* failed with "not a directory" and the chat is still in /base/docs.
C7_Witness ==
    /\ out.step = "cd" /\ out.args = <<Rel_(<<"f">>)>>
    /\ out.resp.err = "not a directory"
    /\ out.before = <<"base", "docs">>
    /\ byID[out.chat] = <<"base", "docs">>

\* C25: pwd answers with the base directory for a chat without an entry and
\* with the stored directory otherwise, and leaves that directory stored; the
\* last step of a successful cd stores the resolved directory it answers with;
\* and nothing but a successful cd of the chat, or its first access, changes
\* what is stored for a chat.
C25_StoreGetSet ==
    /\ [][ (BaseConfigured /\ out'.step = "pwd") =>
              LET c   == out'.chat
                  cur == IF byID[c] = Unset THEN Base ELSE byID[c]
              IN  /\ out'.resp.ok
                  /\ out'.resp.stdout = <<cur>>
                  /\ byID'[c] = cur ]_vars
    /\ [][ out'.step = "cd_set" =>
              /\ out'.resp.ok
              /\ byID'[out'.chat] = out'.resp.stdout[1] ]_vars
    /\ []( out.step = "cd_get" =>
              \E t \in Threads :
                 /\ thr[t].pc = "cd_set" /\ thr[t].chat = out.chat
                 /\ thr[t].target = sanitizePath(fs, Base, out.before, out.args[1]).path )
    /\ [][ \A c \in Chats :
              byID'[c] # byID[c] =>
                 \/ byID[c] = Unset /\ byID'[c] = Base
                 \/ /\ out'.chat = c /\ out'.resp.ok
                    /\ \/ out'.step = "cd_set"
                       \/ out'.step = "cd" /\ out'.args = <<>> ]_vars

\* After "cd docs" a pwd of chat 1 answers /base/docs while chat 2 has no entry.
C25_Witness ==
    /\ out.step = "pwd" /\ out.chat = 1
    /\ out.resp.stdout = << <<"base", "docs">> >>
    /\ byID[2] = Unset

\* C26: a step of a command of one chat (pwd, ls, ll, cat, cd, successful or
\* not, in any interleaving of the two steps of cd) changes what is stored for
\* no other chat.
C26_ChatsIndependent ==
    [][ \A c \in Chats : byID'[c] # byID[c] => out'.chat = c ]_vars

\* Chat 1 is in /base/docs with a validated cd waiting for the lock, and
\* chat 2 has just finished a cd to another directory.
C26_Witness ==
    /\ byID[1] = <<"base", "docs">>
    /\ \E t \in Threads : thr[t].pc = "cd_set" /\ thr[t].chat = 1
    /\ out.step = "cd_set" /\ out.chat = 2
    /\ byID[2] = <<"base", "lnk">>

\* The goroutine t starts a cd <dir> in this step and the directory passes:
\* it goes on to the store.set of runSafeCd.
CdValidates(t) == thr[t].pc = "idle" /\ thr'[t].pc = "cd_set"

\* The goroutine t does the store.set of its cd <dir> in this step.
CdWrites(t) == thr[t].pc = "cd_set" /\ thr'[t].pc = "idle"

\* C33: in every interleaving of the cd commands of two goroutines, a cd that
\* goes on to store.set carries the directory that path resolution returned
\* for its own argument against the directory it read, an existing directory,
\* and carries it unchanged until it writes; its store.set leaves exactly that
\* directory stored for its chat, whatever another cd of the chat wrote or is
\* about to write (the last write wins); and what is stored for a chat changes
\* only to the base directory, by first access or cd without arguments, or to
\* the directory of a cd of that chat that writes in the step.
C33_LastWriteWins ==
    /\ [][ \A t \in Threads :
              CdValidates(t) =>
                 LET c == thr'[t].chat
                     r == sanitizePath(fs, Base, storeGet(byID, c, Base), out'.args[1])
                 IN  /\ out'.step = "cd_get" /\ out'.chat = c /\ Len(out'.args) = 1
                     /\ r.ok /\ thr'[t].target = r.path
                     /\ Stat(fs, r.path) = [ok |-> TRUE, kind |-> "dir"] ]_vars
    /\ [][ \A t \in Threads :
              thr[t].pc = "cd_set" => (thr'[t] = thr[t] \/ thr'[t] = ThrIdle) ]_vars
    /\ [][ \A t \in Threads :
              CdWrites(t) => byID'[thr[t].chat] = thr[t].target ]_vars
    /\ [][ \A c \in Chats :
              byID'[c] # byID[c] =>
                 \/ byID'[c] = Base /\ byID[c] = Unset
                 \/ byID'[c] = Base /\ out'.step = "cd" /\ out'.chat = c /\ out'.args = <<>>
                 \/ \E t \in Threads :
                       CdWrites(t) /\ thr[t].chat = c /\ byID'[c] = thr[t].target ]_vars

\* Two cd of chat 1 were validated against /base, one to /base/docs and one
\* to /base/lnk, before either wrote; the one to /base/docs wrote first and
\* the one to /base/lnk wrote last: the chat is in /base/lnk.
C33_Witness ==
    /\ \A t \in Threads : thr[t] = ThrIdle
    /\ out.step = "cd_set" /\ out.chat = 1
    /\ out.before = <<"base", "docs">>
    /\ byID[1] = <<"base", "lnk">>
    /\ byID[2] = Unset

\* The loop processes an update in this step.
Processes == thr.pc = "process" /\ thr' # thr

\* C34: the polling loop processes the updates of a batch one at a time and
\* in the order received: each processUpdate is for the update the loop is
\* at and has returned when the loop moves to the next one, the first after
\* getUpdates is the first of the batch, no update of the batch is skipped,
\* and getUpdates is not called before the last one is done.  The offset
\* never decreases, and it is greater than the id of every update processed.
C34_PollSequential ==
    /\ [][ Processes =>
              /\ out'.handled /\ out'.upd = thr.updates[thr.i].upd
              /\ thr'.updates = thr.updates
              /\ thr'.done = thr.done \cup {thr.updates[thr.i].UpdateID}
              /\ IF thr.i < Len(thr.updates)
                 THEN thr'.pc = "process" /\ thr'.i = thr.i + 1
                 ELSE thr'.pc = "poll" ]_vars
    /\ [][ (thr.pc = "poll" /\ thr'.pc = "process") => thr'.i = 1 ]_vars
    /\ [][ out' # out => Processes ]_vars
    /\ [][ thr'.polls # thr.polls => thr.pc = "poll" ]_vars
    /\ [][ thr'.offset >= thr.offset ]_vars
    /\ [](\A u \in thr.done : thr.offset > u)

\* getUpdates returned the updates 3 and 2 in this order: both are processed,
\* 2 last, and the offset is 4.
C34_Witness ==
    /\ thr.pc = "poll" /\ thr.updates = <<TelegramUpdate(3, Update(1, 1, W_ls)),
                                          TelegramUpdate(2, Update(1, 1, W_ls))>>
    /\ thr.done = {2, 3}
    /\ thr.offset = 4
    /\ out.handled /\ out.upd = Update(1, 1, W_ls)

\* The last step was a handler with arguments, run with a base directory.
ListStep == BaseConfigured /\ out.step \in {"ls", "ll"}
CatStep  == BaseConfigured /\ out.step = "cat"
CdStep   == BaseConfigured /\ out.step \in {"cd", "cd_get"}

\* The flags ls may be given.
AllowedLsFlags == {"-a", "-l", "-h", "-t", "-r", "-1", "-la", "-al"}

\* Path resolution rejects the argument a, from the directory the chat was in.
PathRejected(a) == ~sanitizePath(fs, Base, out.before, a).ok

\* The arguments of the last step hold one of the rejections of its command.
InputRejected ==
    \/ /\ ListStep
       /\ \E i \in DOMAIN out.args :
             IF IsFlag(out.args[i]) THEN out.args[i].segs[1] \notin AllowedLsFlags
             ELSE PathRejected(out.args[i])
    \/ /\ CatStep
       /\ \/ out.args = <<>>
          \/ \E i \in DOMAIN out.args : IsFlag(out.args[i]) \/ PathRejected(out.args[i])
    \/ /\ CdStep
       /\ \/ Len(out.args) > 1
          \/ Len(out.args) = 1 /\ PathRejected(out.args[1])

RejectionTexts ==
    { "ls flag not allowed: ", "cat requires a file path", "cat flags not allowed",
      "cd accepts a single path", "empty path", "invalid path", "path outside base_dir",
      "symlink points outside base_dir" }

\* C29: when the arguments of ls, ll, cat or cd hold an input rejection (an ls
\* flag outside the allowed ones, cat without argument or with a flag, cd with
\* more than one argument, a path that path resolution rejects, at any
\* position), the response is ok = false with exit code 1 and one of the
\* rejection messages, and no process was spawned, not even for the arguments
\* that were accepted.
C29_InputRejection ==
    InputRejected =>
        /\ ~out.resp.ok
        /\ out.resp.exit = 1
        /\ out.resp.err \in RejectionTexts
        /\ out.resp.spawn = NoSpawn
        /\ out.resp.stdout = <<>> /\ out.resp.stderr = <<>>

\* cat docs/a ../etc f: the second path is rejected and cat is not run for the
\* first.
C29_Witness ==
    /\ CatStep
    /\ Len(out.args) = 3
    /\ ~PathRejected(out.args[1]) /\ PathRejected(out.args[2])
    /\ out.resp.err = "path outside base_dir"
    /\ out.resp.spawn = NoSpawn

\* The flags and the paths among the arguments of the last step, in order.
FlagsGiven == SelectSeq(out.args, IsFlag)
NotFlag(a) == ~IsFlag(a)
PathsGiven == SelectSeq(out.args, NotFlag)

\* The first argument of the last step that is rejected, 0 when none is.
FirstRejected ==
    LET bad == { i \in DOMAIN out.args :
                   IF IsFlag(out.args[i]) THEN out.args[i].segs[1] \notin AllowedLsFlags
                   ELSE PathRejected(out.args[i]) }
    IN  IF bad = {} THEN 0 ELSE CHOOSE i \in bad : \A j \in bad : i <= j

\* C30: the arguments handed to /bin/ls are the flags of the request, each one
\* of -a, -l, -h, -t, -r, -1, -la, -al, after the -la that ll puts first,
\* followed by the paths of the request as path resolution accepted them, or
\* by the current directory of the chat when the request has no path; a
\* request with a flag outside the allowed ones spawns nothing, and the
\* message names the flag when it is the argument that is rejected.
C30_ListArgumentVector ==
    ListStep =>
        /\ out.resp.spawn # NoSpawn =>
              /\ out.resp.spawn.exec = "/bin/ls"
              /\ \A i \in DOMAIN FlagsGiven : FlagsGiven[i].segs[1] \in AllowedLsFlags
              /\ \A i \in DOMAIN PathsGiven : ~PathRejected(PathsGiven[i])
              /\ out.resp.spawn.args =
                    (IF out.step = "ll" THEN << <<"-la">> >> ELSE <<>>)
                    \o [i \in DOMAIN FlagsGiven |-> FlagsGiven[i].segs]
                    \o (IF PathsGiven = <<>> THEN <<out.before>>
                        ELSE [i \in DOMAIN PathsGiven |->
                                sanitizePath(fs, Base, out.before, PathsGiven[i]).path])
        /\ (\E i \in DOMAIN FlagsGiven : FlagsGiven[i].segs[1] \notin AllowedLsFlags) =>
              /\ ~out.resp.ok /\ out.resp.spawn = NoSpawn
        /\ (FirstRejected # 0 /\ IsFlag(out.args[FirstRejected])) =>
              /\ out.resp.err = "ls flag not allowed: "
              /\ out.resp.errArg = out.args[FirstRejected].segs[1]

\* ll docs -al f runs /bin/ls -la -al /base/docs /base/f.
C30_Witness ==
    /\ ListStep /\ out.step = "ll"
    /\ Len(out.args) = 3
    /\ out.resp.spawn.exec = "/bin/ls"
    /\ out.resp.spawn.args = << <<"-la">>, <<"-al">>, <<"base", "docs">>, <<"base", "f">> >>

\* C31 as stated: the process of cat and the process of ls and ll are started
\* with the base directory as their working directory, whatever the
\* directory of the chat is.
C31_ProcessDirIsBase ==
    ((ListStep \/ CatStep) /\ out.resp.spawn # NoSpawn) => out.resp.spawn.dir = Base

(***************************************************************************)
(* Claims about the rate limiter.                                          *)
(***************************************************************************)
\* C8: with a window of 60 s and max = 3 (and any max > 0): a call is rejected
\* when max calls of its identity were admitted less than 60 s before it
\* returns (allow, allow, allow, reject), and it is allowed when fewer than
\* max admitted calls lie less than 60 s before the time it read, whatever
\* rejected calls were made in between (rejected calls are not recorded).
C8_SlidingWindow ==
    (rlMax > 0 /\ rlLog.last.locked) =>
        /\ rlLog.last.inWinEnd >= rlMax => ~rlLog.last.ok
        /\ rlLog.last.inWinNow < rlMax => rlLog.last.ok

\* Identity 1 made allow, allow, allow at time 0, was rejected at time 30, and
\* its call at time 60, one window after the admitted ones, is allowed.
C8_Witness ==
    /\ rlMax = 3 /\ Window = 60
    /\ rlLog.hist[1] = <<0, 0, 0, 60>>
    /\ rlLog.rej[1] = 30
    /\ rlLog.last = [user |-> 1, now |-> 60, end |-> 60, ok |-> TRUE, locked |-> TRUE,
                     inWinNow |-> 0, inWinEnd |-> 0]

\* C9: with max > 0 no identity ever has more than max stored timestamps.
C9_StampsBounded ==
    rlMax > 0 => \A u \in Users : Len(stamp[u]) <= rlMax

\* The list of identity 1 is full, a call of identity 1 was rejected, and
\* another call of identity 1 is between time.Now() and the lock.
C9_Witness ==
    /\ rlMax = 3
    /\ Len(stamp[1]) = rlMax
    /\ rlLog.rej[1] >= 0
    /\ \E t \in Threads : rlThr[t].pc = "lock" /\ rlThr[t].user = 1

\* C10: with max <= 0 every allow call returns true and nothing is recorded.
C10_DisabledLimiter ==
    rlMax <= 0 =>
        /\ rlLog.last.ok
        /\ \A u \in Users : rlLog.rej[u] = -1 /\ stamp[u] = <<>>
        /\ \A t \in Threads : rlThr[t].pc = "idle"

\* Both identities have called a limiter built with max = 0, at several times.
C10_Witness ==
    /\ rlMax = 0
    /\ Len(rlLog.hist[1]) >= 2 /\ Len(rlLog.hist[2]) >= 2
    /\ rlLog.hist[1][1] # rlLog.hist[1][2]

\* C36 as stated: with max > 0, in every interleaving of the allow calls of
\* two goroutines, no interval of one window (from a time a up to, and not
\* including, a + window) holds the timestamps of more than max admitted
\* calls of one identity.
C36_AdmittedPerWindow ==
    rlMax > 0 =>
        \A u \in Users, a \in 0..MaxTime :
            Cardinality({j \in DOMAIN rlLog.hist[u] :
                            a <= rlLog.hist[u][j] /\ rlLog.hist[u][j] < a + Window}) <= rlMax

\* The timestamps of the list that are less than one window old at time now.
Recent(list, now) == SelectSeq(list, LAMBDA t : now - t < Window)

\* processUpdate stopped the message after the rate limit and before the
\* executor, at routing or at policy.
StoppedAfterRate(o) ==
    /\ o.res.rl = "allowed" /\ o.res.execs = <<>> /\ o.res.llm = 0
    /\ Len(o.res.sends) = 1
    /\ o.res.sends[1].text \in {"Empty command.", "Allowed commands: ", "Command blocked.",
                                "Command not allowed."}

\* C37: in every step of processUpdate for a message of identity u, the
\* timestamps of every other identity are left as they were; whether the
\* limiter rejects u depends on the timestamps of u alone (with max > 0: it
\* rejects exactly when max of them are less than one window old); a message
\* of an unauthorized identity leaves all timestamps as they were; and with
\* max > 0 a message of an authorized identity that the limiter admits has
\* the time recorded for u, also when the pipeline stops it afterwards as
\* empty command, help, blocked or not allowed.
C37_WindowsPerIdentity ==
    [][ (out' # out /\ out'.upd.hasMsg) =>
           LET u == out'.upd.user
               authorized == \E i \in DOMAIN cfg.TelegramAllowedUserIDs :
                                cfg.TelegramAllowedUserIDs[i] = u
           IN  /\ \A v \in Users \ {u} : stamp'[v] = stamp[v]
               /\ ~authorized => (stamp' = stamp /\ out'.res.rl = "skipped")
               /\ (authorized /\ rlMax > 0) =>
                      /\ out'.res.rl = "rejected" <=> Len(Recent(stamp[u], clock)) >= rlMax
                      /\ out'.res.rl = "rejected" => stamp'[u] = Recent(stamp[u], clock)
                      /\ out'.res.rl = "allowed" =>
                            stamp'[u] = Append(Recent(stamp[u], clock), clock) ]_vars

\* Identity 2 was admitted at time 0 and identity 1 sends "/Help" at time 30
\* with max = 1: the help is answered and has taken the slot of identity 1,
\* and the timestamp of identity 2 is as it was.
C37_Witness ==
    /\ rlMax = 1 /\ clock = 30
    /\ out.upd = Update(1, 1, <<"/", "H", "e", "l", "p">>)
    /\ StoppedAfterRate(out)
    /\ out.res.sends[1].text = "Allowed commands: "
    /\ stamp[1] = <<30>>
    /\ stamp[2] = <<0>>

\* How often the time v is in the list q.
Occurrences(q, v) == Cardinality({i \in DOMAIN q : q[i] = v})

\* The goroutine t goes through the critical section of allow in this step.
LockedStep(t) == rlThr[t].pc = "lock" /\ rlThr'[t].pc = "idle"

\* What a call at time now for identity u leaves of the list it found, when
\* the timestamps of age less than limit are the ones retained (an age of
\* exactly limit is retained when inclusive): the list after the call without
\* the timestamp the call recorded holds these and no other, and the call is
\* admitted exactly when fewer than max of them are retained.
PrunedTo(u, now, inclusive) ==
    LET retained(v) == IF inclusive THEN now - v <= Window ELSE now - v < Window
        left == IF rlLog'.last.ok THEN Front(stamp'[u]) ELSE stamp'[u]
    IN  /\ \A v \in 0..MaxTime :
              Occurrences(left, v) = IF retained(v) THEN Occurrences(stamp[u], v) ELSE 0
        /\ rlLog'.last.ok
              <=> Cardinality({i \in DOMAIN stamp[u] : retained(stamp[u][i])}) < rlMax
        /\ rlLog'.last.ok => stamp'[u][Len(stamp'[u])] = now

\* C32 as stated: each allow call removes exactly the timestamps older than
\* now - window; a timestamp exactly one window old is retained and counts
\* towards max for the call.
C32_BoundaryRetained ==
    [][ \A t \in Threads : LockedStep(t) => PrunedTo(rlThr[t].user, rlThr[t].now, TRUE) ]_vars

\* C32, amended: each allow call removes exactly the timestamps that are not
\* later than now - window; a timestamp exactly one window old is removed and
\* does not count towards max for the call.
C32_BoundaryPruned ==
    [][ \A t \in Threads : LockedStep(t) => PrunedTo(rlThr[t].user, rlThr[t].now, FALSE) ]_vars

\* With max = 1, identity 1 was admitted at time 0 and again at time 60: the
\* timestamp 0, exactly one window old, was removed by the second call.
C32_Witness ==
    /\ rlMax = 1
    /\ rlLog.hist[1] = <<0, 60>>
    /\ stamp[1] = <<60>>
    /\ rlLog.last.user = 1 /\ rlLog.last.now = 60 /\ rlLog.last.ok /\ rlLog.last.locked

(***************************************************************************)
(* Claims about the executors.                                             *)
(***************************************************************************)
\* An executor has answered the request out.req.
Answered == out.who # "none" /\ out.called /\ out.hasResp

\* The command name the executors look up.
CmdName == TrimSpace(out.req.Command)

\* The request was answered by running a static command: the name is a key of
\* the map of static commands, it is in no list that is consulted earlier.
StaticDispatch ==
    /\ Answered
    /\ CmdName \in DOMAIN cfg.CommandAllowlist
    /\ ~InList(CmdName, cfg.DynamicAllowlist)
    /\ out.who = "agent" => ~InList(CmdName, cfg.CommandBlocklist)

\* The executor spawned a child for the request.
Spawned == Answered /\ out.resp.spawn # NoSpawn

\* The names handleDynamicCommand has a case for.
DynamicHandled == {W_pwd, W_ls, W_ll, W_cat, W_cd}

\* C38: the local executor spawns a child only for a name that is in the
\* dynamic allowlist, in any case, or is a key of the map of static commands
\* as written.  A name that is in the dynamic allowlist is answered by
\* handleDynamicCommand, also when it is a key of the static map: its child,
\* if any, is /bin/ls or /bin/cat for ls, ll or cat, started in a directory
\* the handler sets, never the configured static command; a name without a
\* case there is answered "unsupported dynamic command" when a base directory
\* is configured, and every name with the base directory error when none is.
C38_LocalAllowlists ==
    (Answered /\ out.who = "local") =>
        /\ Spawned => (InList(CmdName, cfg.DynamicAllowlist)
                          \/ CmdName \in DOMAIN cfg.CommandAllowlist)
        /\ InList(CmdName, cfg.DynamicAllowlist) =>
              /\ Spawned =>
                    /\ out.resp.spawn.dir # InheritDir
                    /\ ToLower(CmdName) \in {W_ls, W_ll, W_cat}
                    /\ out.resp.spawn.exec = (IF ToLower(CmdName) = W_cat THEN "/bin/cat"
                                               ELSE "/bin/ls")
              /\ (cfg.BaseDir # <<>> /\ ToLower(CmdName) \notin DynamicHandled) =>
                    out.resp = Reject("unsupported dynamic command")
              /\ cfg.BaseDir = <<>> =>
                    out.resp = Reject("execution.local.base_dir not configured")

\* "status" is a static command and "Status" is in the dynamic allowlist: the
\* request "status" is answered "unsupported dynamic command" and uptime is
\* not run.
C38_Witness ==
    /\ Answered /\ out.who = "local"
    /\ CmdName = W_status /\ CmdName \in DOMAIN cfg.CommandAllowlist
    /\ InList(CmdName, cfg.DynamicAllowlist)
    /\ cfg.BaseDir = Base
    /\ out.resp = Reject("unsupported dynamic command")

\* C11: a static command is spawned with the configured executable and the
\* configured arguments, and nothing of the request.
C11_StaticArgsFixed ==
    StaticDispatch =>
        /\ out.resp.spawn.exec = cfg.CommandAllowlist[CmdName].Exec
        /\ out.resp.spawn.args = cfg.CommandAllowlist[CmdName].Args
        /\ out.resp.spawn.dir = InheritDir

\* The request " status " with an argument ran /usr/bin/uptime -p.
C11_Witness ==
    /\ StaticDispatch /\ out.req.Args # <<>> /\ CmdName = W_status
    /\ out.resp.spawn.exec = "/usr/bin/uptime" /\ out.resp.spawn.args = <<"-p">>
    /\ out.resp.ok

\* C12 as stated: a child still running when the timeout of the call expires
\* gives a response with ok=false and exit code 124.
C12_TimeoutGives124 ==
    (Spawned /\ TimesOut(out.proc, cfg.DefaultTimeoutSec)) =>
        (~out.resp.ok /\ out.resp.exit = 124)

\* The child ended before the timeout of the call.
EndedInTime == Spawned /\ out.proc.end \in {"exit", "signal"}
               /\ ~TimesOut(out.proc, cfg.DefaultTimeoutSec)

\* C13 as stated: without a timeout, a child killed by a signal gives exit code
\* 137, a child that exits with a status other than 0 gives that status, any
\* other error of the spawn gives 1; ok=false and the error text is set.
C13_ExitCodeMapping ==
    /\ (EndedInTime /\ out.proc.end = "signal") =>
          (out.resp.exit = 137 /\ ~out.resp.ok /\ out.resp.err # "")
    /\ (EndedInTime /\ out.proc.end = "exit" /\ out.proc.status # 0) =>
          (out.resp.exit = out.proc.status /\ ~out.resp.ok /\ out.resp.err # "")
    /\ (Spawned /\ out.proc.end = "nostart") =>
          (out.resp.exit = 1 /\ ~out.resp.ok /\ out.resp.err # "")

\* C14: every response of the local executor and of the agent executor has
\* ok=true and exit code 0, or ok=false and an exit code other than 0 or an
\* error text.
C14_ResponseShape ==
    Answered =>
        /\ out.resp.ok => out.resp.exit = 0
        /\ ~out.resp.ok => (out.resp.exit # 0 \/ out.resp.err # "")

\* The agent ran cat and cat exited with status 2.
C14_Witness ==
    /\ Spawned /\ out.who = "agent" /\ ToLower(CmdName) = W_cat
    /\ ~out.resp.ok /\ out.resp.exit = 2 /\ out.resp.err = "exit status 2"

\* What limitOutput has to return for the captured stream raw.
Limited(got, raw, maxKB) ==
    IF StreamLen(raw) <= maxKB * 1024
    THEN got = raw
    ELSE /\ got # <<>> /\ Last(got) = Run_("\n[truncated]\n", 13)
         /\ StreamLen(Front(got)) = maxKB * 1024
         /\ Front(got) = Take(raw, maxKB * 1024)

\* C15: stdout and stderr are cut each on its own: a stream of at most
\* maxOutputKB*1024 bytes comes back unchanged, a longer one as its first
\* maxOutputKB*1024 bytes and the marker.
C15_StreamsTruncated ==
    Spawned =>
        /\ Limited(out.resp.stdout, Captured(out.proc.stdout, out.proc, cfg.DefaultTimeoutSec),
                   cfg.MaxOutputKB)
        /\ Limited(out.resp.stderr, Captured(out.proc.stderr, out.proc, cfg.DefaultTimeoutSec),
                   cfg.MaxOutputKB)

\* With a limit of 1 KB a child wrote 1025 bytes to stdout and 3000 to stderr:
\* both are cut after 1024 bytes; with 2 KB only stderr would be.
C15_Witness ==
    /\ Spawned /\ cfg.MaxOutputKB = 1
    /\ StreamLen(out.proc.stdout) = 1025
    /\ out.resp.stdout = <<Run_("a", 1024), TruncatedMarker>>
    /\ out.resp.stderr = <<Run_("e", 1024), TruncatedMarker>>

\* C20: with a token configured, a POST whose X-Auth-Token header differs from
\* it is answered with 401 and the executor is not called.
C20_BadTokenRejected ==
    ( /\ out.who = "agent" /\ out.http.method = "POST"
      /\ cfg.AuthToken # "" /\ out.http.token # cfg.AuthToken )
    => (out.status = 401 /\ ~out.called /\ ~out.hasResp)

\* A POST without the header reached an agent configured with a token.
C20_Witness ==
    /\ out.who = "agent" /\ out.http.method = "POST" /\ out.http.body.kind = "json"
    /\ cfg.AuthToken = "secret" /\ out.http.token = ""
    /\ out.status = 401

\* C21: in the agent executor a command whose name is in the blocklist, letter
\* case ignored, is answered ok=false with the error "command blocked" and is
\* not dispatched (no child, no change of a working directory), also when the
\* name is in the dynamic allowlist or in the static commands.
C21_AgentBlocklistFirst ==
    /\ []( ( /\ out.who = "agent" /\ out.called /\ CmdName # <<>>
             /\ InList(CmdName, cfg.CommandBlocklist) )
           => ( /\ ~out.resp.ok /\ out.resp.err = "command blocked"
                /\ out.resp.spawn = NoSpawn ) )
    /\ [][ ( /\ out'.who = "agent" /\ out'.called /\ TrimSpace(out'.req.Command) # <<>>
             /\ InList(TrimSpace(out'.req.Command), cfg.CommandBlocklist) )
           => byID' = byID ]_vars

\* The agent was asked for "cat", which is in the dynamic allowlist while "Cat"
\* is in the blocklist, and for "status", a static command, while "Status" is.
C21_Witness ==
    /\ out.who = "agent" /\ out.called /\ cfg.BaseDir # <<>>
    /\ CmdName \in {W_cat, W_status}
    /\ InList(CmdName, cfg.DynamicAllowlist) \/ CmdName \in DOMAIN cfg.CommandAllowlist
    /\ InList(CmdName, cfg.CommandBlocklist)
    /\ out.resp.err = "command blocked"

(***************************************************************************)
(* Claims about the forwarding executor.                                   *)
(***************************************************************************)
\* The agent answered the i-th call of the executor with a status other
\* than 200.
NonOKStatus(i) ==
    /\ out.calls[i].ret.posted.made
    /\ out.calls[i].answer.kind = "http"
    /\ out.calls[i].answer.status # 200

\* C28: when the agent answers a forwarded request with a status other than
\* 200, Execute returns an error and no CommandResponse, and processUpdate
\* sends exactly one message, "Agent error: " followed by that error, and no
\* rendering of a response; and when a forward auth token is configured, every
\* request that is posted carries it in the header X-Auth-Token.
C28_ForwardErrors ==
    \A i \in DOMAIN out.calls :
        /\ NonOKStatus(i) =>
              /\ out.calls[i].ret.err # ""
              /\ ~out.calls[i].ret.hasResp
              /\ Len(out.res.sends) = 1
              /\ out.res.sends[1].text = "Agent error: "
              /\ out.res.sends[1].data = <<out.calls[i].ret.err>>
        /\ (out.calls[i].ret.posted.made /\ cfg.ForwardAuthToken # "") =>
              /\ out.calls[i].ret.posted.hasAuth
              /\ out.calls[i].ret.posted.XAuthToken = cfg.ForwardAuthToken

\* The agent answered 403 with the JSON of a response, to a request that
\* carried the token: the reply is "Agent error: agent status 403".
C28_Witness ==
    /\ Len(out.calls) = 1
    /\ NonOKStatus(1)
    /\ out.calls[1].answer.status = 403 /\ out.calls[1].answer.json
    /\ out.calls[1].ret.posted.XAuthToken = "secret"
    /\ out.res.sends[1].data = <<"agent status 403">>

\* C35: for a message that passed authorization and the rate limit, an error
\* of the classifier gives exactly one message, "LLM error: " followed by the
\* error, and no call of the executor; an error of the executor gives exactly
\* one message, "Agent error: " followed by the error, after that one call;
\* and when a message is not delivered, processUpdate has still returned with
\* that one attempt, the limiter's map as the pipeline left it, and no call
\* of the executor beyond the one that preceded the message.
C35_CollaboratorFailure ==
    (out.handled /\ out.upd.hasMsg) =>
        /\ (out.res.llm = 1 /\ out.dec.err # "") =>
              /\ Len(out.res.sends) = 1
              /\ out.res.sends[1].chat = out.upd.chat
              /\ out.res.sends[1].text = "LLM error: "
              /\ out.res.sends[1].data = <<out.dec.err>>
              /\ out.res.execs = <<>> /\ out.calls = <<>>
        /\ \A i \in DOMAIN out.calls :
              out.calls[i].ret.err # "" =>
                 /\ Len(out.res.execs) = 1
                 /\ Len(out.res.sends) = 1
                 /\ out.res.sends[1].chat = out.upd.chat
                 /\ out.res.sends[1].text = "Agent error: "
                 /\ out.res.sends[1].data = <<out.calls[i].ret.err>>
        /\ (\E k \in DOMAIN out.res.sends : ~out.res.sends[k].delivered) =>
              /\ Len(out.res.sends) = 1
              /\ Len(out.res.execs) <= 1
              /\ stamp = out.res.stamp

\* The classifier failed and the message that says so was not delivered.
C35_Witness ==
    /\ out.handled /\ out.res.llm = 1
    /\ out.dec.err = "llm returned no usable output"
    /\ out.res.sends[1].text = "LLM error: "
    /\ ~out.res.sends[1].delivered
    /\ out.res.execs = <<>>

\* The agent was not reachable and the message that says so was not
\* delivered.
C35_WitnessExecutor ==
    /\ out.handled /\ Len(out.calls) = 1
    /\ out.calls[1].answer = NetError
    /\ out.res.sends = << [chat |-> 1, text |-> "Agent error: ",
                           data |-> <<"connection refused">>, delivered |-> FALSE] >>

\* The texts with which the agent refuses a command.
Refusals == {"empty command", "command blocked", "command not allowed"}

\* The agent's command handler refused the i-th call of the executor.
Refused(i) ==
    /\ out.calls[i].answer.kind = "http" /\ out.calls[i].answer.json
    /\ ~out.calls[i].answer.resp.ok
    /\ out.calls[i].answer.resp.err \in Refusals

\* C39: when the agent's command handler refuses the forwarded command, it
\* answers 400 for "empty command" and 403 for "command blocked" and "command
\* not allowed"; the forwarding executor returns an error and no response,
\* and processUpdate sends exactly one message, "Agent error: agent status "
\* and the code, not the rendering of the refusal.
C39_RefusalBecomesAgentError ==
    \A i \in DOMAIN out.calls :
        Refused(i) =>
            /\ out.calls[i].answer.status =
                   (IF out.calls[i].answer.resp.err = "empty command"
                    THEN StatusBadRequest ELSE StatusForbidden)
            /\ ~out.calls[i].ret.hasResp
            /\ out.calls[i].ret.err = (IF out.calls[i].answer.resp.err = "empty command"
                                       THEN "agent status 400" ELSE "agent status 403")
            /\ Len(out.res.sends) = 1
            /\ out.res.sends[1].text = "Agent error: "
            /\ out.res.sends[1].data = <<out.calls[i].ret.err>>

\* "/Status" passed the broker's policy and is in the agent's blocklist: the
\* agent answered 403 with "command blocked" and the user got "Agent error:
\* agent status 403".
C39_Witness ==
    /\ out.upd = Update(1, 1, <<"/", "S", "t", "a", "t", "u", "s">>)
    /\ Len(out.calls) = 1 /\ Refused(1)
    /\ out.calls[1].answer.resp.err = "command blocked"
    /\ out.res.execs[1].Command = W_status
    /\ out.res.sends[1].text = "Agent error: "
    /\ out.res.sends[1].data = <<"agent status 403">>

\* "uptime" passed the broker's policy and is no command of the agent.
C39_WitnessNotAllowed ==
    /\ Len(out.calls) = 1 /\ Refused(1)
    /\ out.calls[1].answer.resp.err = "command not allowed"
    /\ out.res.sends[1].data = <<"agent status 403">>

(***************************************************************************)
(* Claims about touch, mkdir, count and ping.                              *)
(***************************************************************************)
\* The path a one-argument step of the model was about: the argument joined
\* to the directory of the chat.
TargetOf(args) == Join(out.before, args[1].segs)

\* The regular files directly inside the directory dir.
FilesIn(f, dir) ==
    { q \in DOMAIN f : Len(q) = Len(dir) + 1 /\ SubSeq(q, 1, Len(dir)) = dir /\ f[q].kind = "file" }

\* The last step was count on a path that exists inside the base directory.
CountedPath ==
    /\ out.step = "count" /\ Len(out.args) = 1
    /\ ~PathRejected(out.args[1])
    /\ Stat(fs, TargetOf(out.args)).ok

\* C22: count on a file answers 1, and on a directory the number of the
\* regular files directly inside it, subdirectories and what is below them
\* not counted; mkdir makes the directory and touch the file, so that after
\* mkdir Movies, touch Movies/a.mp4 and touch Movies/b.mp4, count Movies
\* answers ok with stdout "2\n".
C22_CountRegularFiles ==
    /\ [](CountedPath =>
            /\ out.resp.ok /\ out.resp.exit = 0
            /\ out.resp.stdout =
                  IF Stat(fs, TargetOf(out.args)).kind = "file" THEN <<1>>
                  ELSE <<Cardinality(FilesIn(fs, EvalSymlinks(fs, TargetOf(out.args)).path))>>)
    /\ [][ ( /\ out'.step \in {"mkdir", "touch"} /\ out'.resp.ok
             /\ ~Lstat(fs, Join(out'.before, out'.args[1].segs)).ok )
           => /\ Lstat(fs', Join(out'.before, out'.args[1].segs)).kind
                    = (IF out'.step = "mkdir" THEN "dir" ELSE "file")
              /\ \A q \in DOMAIN fs : q \in DOMAIN fs' /\ fs'[q] = fs[q] ]_vars
    /\ []( ( /\ out.step = "count" /\ out.args = <<Rel_(<<"Movies">>)>>
             /\ out.before = Base
             /\ <<"base", "Movies">> \in DOMAIN fs /\ fs[<<"base", "Movies">>].kind = "dir"
             /\ FilesIn(fs, <<"base", "Movies">>)
                   = { <<"base", "Movies", "a.mp4">>, <<"base", "Movies", "b.mp4">> } )
           => (out.resp.ok /\ out.resp.stdout = <<2>>) )

\* count Movies answered 2 in a directory that mkdir made, with the two
\* files that touch made and a subdirectory with a file of its own.
C22_Witness ==
    /\ out.step = "count" /\ out.args = <<Rel_(<<"Movies">>)>>
    /\ out.resp.ok /\ out.resp.stdout = <<2>>
    /\ FilesIn(fs, <<"base", "Movies">>)
          = { <<"base", "Movies", "a.mp4">>, <<"base", "Movies", "b.mp4">> }
    /\ <<"base", "Movies", "Clips", "c.mp4">> \in DOMAIN fs

\* A host that is not letters, digits, "." and "-" only, or starts or ends
\* with "." or "-", or has more than 253 characters.
HostFailsValidation(h) ==
    \/ \E i \in DOMAIN h :
          ~(\/ \E k \in DOMAIN LowerLetters : h[i] = LowerLetters[k] \/ h[i] = UpperLetters[k]
            \/ \E k \in DOMAIN Digits : h[i] = Digits[k]
            \/ h[i] = "." \/ h[i] = "-")
    \/ (h # <<>> /\ (h[1] \in {".", "-"} \/ h[Len(h)] \in {".", "-"}))
    \/ Len(h) > 253

\* C24: ping with a host that fails validation answers ok = false, and no
\* process is spawned.
C24_PingBadHost ==
    (out.step = "ping" /\ Len(out.args) = 1 /\ HostFailsValidation(out.args[1])) =>
        /\ ~out.resp.ok
        /\ out.resp.spawn = NoSpawn

\* ping "bad host" was rejected.
C24_Witness ==
    /\ out.step = "ping"
    /\ out.args = << <<"b", "a", "d", " ", "h", "o", "s", "t">> >>
    /\ ~out.resp.ok /\ out.resp.spawn = NoSpawn

\* The directories of the tree at more than FindMaxDepth levels below dir,
\* and those with the fragment of the last step in their name.
IsBelow(q, dir) == Len(q) >= Len(dir) /\ SubSeq(q, 1, Len(dir)) = dir

Matching(dir) ==
    { q \in DOMAIN fs : /\ fs[q].kind = "dir" /\ IsBelow(q, dir)
                        /\ nameMatches(q, TrimSpace(out.args[1])) }

FindRan == out.step = "find" /\ Len(out.args) = 1 /\ TrimSpace(out.args[1]) # <<>>

\* C23: find returns at most 200 matches and visits no directory more than 7
\* levels below the directory of the chat, whatever the tree; when more
\* directories match, or the tree is deeper, the walk is cut short and find
\* still answers ok.
C23_FindBounded ==
    FindRan =>
        /\ out.resp.ok /\ out.resp.exit = 0
        /\ Len(out.resp.stdout) <= 200
        /\ \A i \in DOMAIN out.visited :
              /\ IsBelow(out.visited[i], out.before)
              /\ Len(out.visited[i]) - Len(out.before) <= 7
        /\ \A i \in DOMAIN out.resp.stdout :
              /\ out.resp.stdout[i] \in Matching(out.before)
              /\ Len(out.resp.stdout[i]) - Len(out.before) <= 7

\* find D from /base reached both bounds: the chain d0/d0/... is nine deep
\* and matches down to its seventh directory, 267 directories match and 200
\* are returned, with ok.
C23_Witness ==
    /\ FindRan
    /\ out.before = Base
    /\ Cardinality(Matching(Base)) > 200
    /\ \E q \in Matching(Base) : Len(q) - Len(Base) > 7
    /\ Len(out.resp.stdout) = 200
    /\ out.resp.stdout[7] = Base \o [i \in 1..7 |-> "d0"]
    /\ out.resp.stdout[8] = Base \o <<"d1">>
    /\ out.resp.ok

====
